---- MODULE Spec2Model ----
(***************************************************************************)
(* MexcBot.py: a Telegram bot that keeps per-chat volume alerts, polls the *)
(* exchange for each enabled alert and notifies the chat when a reading    *)
(* reaches the alert's threshold.                                          *)
(*                                                                         *)
(* The module models the globals of MexcBot.py (user_settings, user_state, *)
(* user_temp, ALL_SYMBOLS, _is_monitoring_running, the data file), the     *)
(* coroutine monitor_volumes split at its awaits, and the two update       *)
(* handlers any_message and button_handler.  Alert dicts are Python        *)
(* objects: they live in `heap` under an object id, and the lists of       *)
(* user_settings hold object ids, so that a reference kept across an await *)
(* (monitor_volumes' loop variable `alert`) stays the same object whatever *)
(* the handlers do to the list meanwhile.                                  *)
(***************************************************************************)
EXTENDS Integers, Sequences, FiniteSets, TLC

VARIABLES
    user_settings,      \* dict chat_id -> list of alerts, in insertion order
    heap,               \* object id -> alert dict
    user_state,         \* dict chat_id -> dialogue tag
    user_temp,          \* dict chat_id -> pending draft (a dict)
    ALL_SYMBOLS,        \* the symbol universe
    disk,               \* the content of DATA_FILE
    is_monitoring_running,  \* _is_monitoring_running
    mon_pc,             \* where monitor_volumes is suspended
    snapshot,           \* list(user_settings.items()) of the current pass
    ci,                 \* position in snapshot (the outer for)
    ai,                 \* position of the list iterator (the inner for)
    alert,              \* the loop variable `alert` (an object id, 0 = none)
    vol,                \* the local `vol`
    notifications_sent, \* the local `notifications_sent`
    error_count,        \* the local `error_count`
    sleep_for,          \* seconds of the sleep monitor_volumes is in
    reads,              \* history: the fetches completed in this pass
    sent,               \* history: the send_message calls made in this pass
    failed,             \* history: a fetch or a send raised in this pass
    hist,               \* history: readings and firings of the first alert
    tick,               \* history: parity of the number of passes begun
    pending,            \* handlers suspended in an await before their last writes
    reply,              \* history: what the last handler told the operator
    edit_oid,           \* history: per chat, the alert the edit draft was opened for
    tracking,           \* whether the history of the first alert is kept
    call,               \* history: the last call of a function studied alone
    stop_pc             \* where post_stop is: "none", "stopping", "stopped"

dataVars == <<user_settings, heap, disk>>
uiVars   == <<user_state, user_temp, ALL_SYMBOLS, pending, reply, edit_oid,
             tracking, call, stop_pc>>
monVars  == <<mon_pc, snapshot, ci, ai, alert, vol, notifications_sent,
              error_count, sleep_for>>
histVars == <<reads, sent, failed, hist, tick>>
vars     == <<dataVars, uiVars, monVars, histVars, is_monitoring_running>>

----------------------------------------------------------------------------
(* Bounds of the model.                                                    *)

\* alert objects alive at one time
MaxOid == 3
\* length of the recorded history of the first alert
MaxHist == 5
\* handlers suspended in an await at one time
MaxPending == 1
\* alerts in the list of one chat
MaxList == 2

Chats == {1, 2}

\* Strings that the code takes apart are sequences of characters.
BTCUSDT == <<"B", "T", "C", "U", "S", "D", "T">>
ETHUSDT == <<"E", "T", "H", "U", "S", "D", "T">>

\* readings the exchange may report (0 is also fetch_volume's failure value)
Volumes == {0, 3000, 6000, 7000}

----------------------------------------------------------------------------
(* Program constants.                                                      *)

max_errors == 5
check_interval == 30
InitialDelay == 3
ErrorSleep == 60
BackoffSleep == 300
MinThreshold == 1000

----------------------------------------------------------------------------
(* Python dicts and lists.                                                 *)

Range(s) == {s[i] : i \in 1..Len(s)}

\* user_settings.keys()
Keys(us) == {us[i].chat_id : i \in 1..Len(us)}

\* user_settings.get(chat_id, [])
Get(us, c) ==
    IF c \in Keys(us)
    THEN (CHOOSE e \in Range(us) : e.chat_id = c).alerts
    ELSE <<>>

\* user_settings.setdefault(chat_id, [])
SetDefault(us, c) ==
    IF c \in Keys(us) THEN us ELSE Append(us, [chat_id |-> c, alerts |-> <<>>])

\* the list user_settings[chat_id] becomes lst (append, pop)
Put(us, c, lst) ==
    [i \in 1..Len(us) |->
        IF us[i].chat_id = c THEN [us[i] EXCEPT !.alerts = lst] ELSE us[i]]

PopLast(lst, idx) == SubSeq(lst, 1, Len(lst) - 1)

\* list.pop(idx), idx counted from 0
Pop(lst, idx) ==
    [j \in 1..(Len(lst) - 1) |-> IF j <= idx THEN lst[j] ELSE lst[j + 1]]

\* every alert object some list of user_settings holds
Stored(us) == UNION {Range(us[i].alerts) : i \in 1..Len(us)}

\* sum(len(alerts) for alerts in user_settings.values())
RECURSIVE TotalAlerts(_)
TotalAlerts(us) ==
    IF us = <<>> THEN 0 ELSE Len(Head(us).alerts) + TotalAlerts(Tail(us))

\* Reference counting: an alert dict lives as long as a list or the monitor's
\* loop variable refers to it.
Collect(h, us, a) == [o \in (DOMAIN h) \cap (Stored(us) \cup {a}) |-> h[o]]

----------------------------------------------------------------------------
(* save_settings: json.dump({str(k): v for k, v in user_settings.items()}) *)

DigitChar(d) ==
    CASE d = 0 -> "0" [] d = 1 -> "1" [] d = 2 -> "2" [] d = 3 -> "3"
      [] d = 4 -> "4" [] d = 5 -> "5" [] d = 6 -> "6" [] d = 7 -> "7"
      [] d = 8 -> "8" [] d = 9 -> "9"

RECURSIVE StrNat(_)
StrNat(n) ==
    IF n < 10 THEN <<DigitChar(n)>>
    ELSE Append(StrNat(n \div 10), DigitChar(n % 10))

\* str(k) of an int
Str(k) == IF k < 0 THEN <<"-">> \o StrNat(0 - k) ELSE StrNat(k)

\* the JSON document save_settings writes
Dump(us, h) ==
    [i \in 1..Len(us) |->
        [key   |-> Str(us[i].chat_id),
         value |-> [j \in 1..Len(us[i].alerts) |-> h[us[i].alerts[j]]]]]

save_settings(us, h) == [kind |-> "json", doc |-> Dump(us, h)]

NoFile == [kind |-> "absent", doc |-> <<>>]

----------------------------------------------------------------------------
(* monitor_volumes.  The coroutine runs from one await to the next without *)
(* giving up control, so each action below is the code between two awaits. *)
(* Locals that the code does not read again are cleared when left.         *)

NeverSkipped(a) == FALSE

PosFromStart(us, h, snap, c, a) ==
    IF c > Len(snap) \/ a > Len(Get(us, snap[c])) THEN <<0, 0>> ELSE <<c, 1>>

\* line 329: `if not alert.get("notifications_enabled", True): continue`
Skipped(a) == ~a.notifications_enabled

\* The two nested for loops, from list position (c, a) on (both counted from
\* 1), up to the next alert that is fetched: <<c, a>> of that alert, or
\* <<0, 0>> when both loops are exhausted.  The list iterator reads the live
\* list at every step.
RECURSIVE NextPos(_, _, _, _, _)
NextPos(us, h, snap, c, a) ==
    IF c > Len(snap) THEN <<0, 0>>
    ELSE LET lst == Get(us, snap[c])
         IN  IF a > Len(lst) THEN NextPos(us, h, snap, c + 1, 1)
             ELSE IF Skipped(h[lst[a]]) THEN NextPos(us, h, snap, c, a + 1)
             ELSE <<c, a>>

AlwaysData(v) == FALSE

\* line 334: `if vol == 0: continue`
NoData(v) == v = 0

AtOrAbove(v, threshold, last_notified) == v >= threshold

StrictlyAbove(v, threshold, last_notified) ==
    v > threshold /\ v # last_notified

\* line 341: the firing condition
Fires(v, threshold, last_notified) == v >= threshold /\ v # last_notified

\* the history of the alert object 1, kept up to MaxHist entries
Record(hs, o, v, fired) ==
    IF tracking /\ o = 1 /\ Len(hs) < MaxHist
    THEN Append(hs, [vol |-> v, fired |-> fired]) ELSE hs

\* the history ends with the object
Track(hs, h) == IF 1 \in DOMAIN h THEN hs ELSE <<>>

SweepWithoutSave(h, ns, hs) ==
    /\ mon_pc' = "sleep"
    /\ sleep_for' = check_interval
    /\ error_count' = 0
    /\ notifications_sent' = ns
    /\ snapshot' = <<>>
    /\ ci' = 0 /\ ai' = 0 /\ alert' = 0 /\ vol' = 0
    /\ heap' = Collect(h, user_settings, 0)
    /\ hist' = Track(hs, heap')
    /\ UNCHANGED disk

\* lines 374-383: after the sweep
SweepDone(h, ns, hs) ==
    /\ mon_pc' = "sleep"
    /\ sleep_for' = check_interval
    /\ error_count' = 0
    /\ disk' = IF ns > 0 THEN save_settings(user_settings, h) ELSE disk
    /\ notifications_sent' = ns
    /\ snapshot' = <<>>
    /\ ci' = 0 /\ ai' = 0 /\ alert' = 0 /\ vol' = 0
    /\ heap' = Collect(h, user_settings, 0)
    /\ hist' = Track(hs, heap')

\* line 333: the next enabled alert is taken and its volume requested
StartFetch(h, ns, hs, snap, p) ==
    LET a == Get(user_settings, snap[p[1]])[p[2]]
    IN  /\ mon_pc' = "fetch"
        /\ snapshot' = snap
        /\ ci' = p[1] /\ ai' = p[2] /\ alert' = a /\ vol' = 0
        /\ notifications_sent' = ns
        /\ heap' = Collect(h, user_settings, a)
        /\ hist' = Track(hs, heap')
        /\ UNCHANGED <<disk, error_count, sleep_for>>

\* lines 322-383: run on from list position (c, a) to the next await
Continue(h, ns, hs, snap, c, a) ==
    LET p == NextPos(user_settings, h, snap, c, a)
    IN  IF p = <<0, 0>> THEN SweepDone(h, ns, hs)
        ELSE StartFetch(h, ns, hs, snap, p)

\* lines 315-318: nothing to monitor
IdlePass ==
    /\ mon_pc' = "sleep"
    /\ sleep_for' = check_interval
    /\ UNCHANGED <<snapshot, ci, ai, alert, vol, notifications_sent,
                   error_count, heap, disk, hist>>

\* lines 302, 309-322: a sleep ends and the loop condition is tested
WakeUp ==
    /\ mon_pc \in {"init_sleep", "sleep"}
    /\ IF ~is_monitoring_running
       THEN /\ mon_pc' = "done"
            /\ UNCHANGED <<snapshot, ci, ai, alert, vol, notifications_sent,
                           error_count, sleep_for, heap, disk, hist, tick>>
       ELSE /\ tick' = ~tick
            /\ IF TotalAlerts(user_settings) = 0
               THEN IdlePass
               ELSE Continue(heap, 0, hist,
                             [i \in 1..Len(user_settings) |->
                                 user_settings[i].chat_id],
                             1, 1)
    /\ reads' = <<>> /\ sent' = <<>> /\ failed' = FALSE
    /\ UNCHANGED <<user_settings, uiVars, is_monitoring_running>>

ExceptHandlerBreaks ==
    /\ mon_pc' = "done"
    /\ error_count' = error_count + 1
    /\ snapshot' = <<>> /\ ci' = 0 /\ ai' = 0 /\ alert' = 0 /\ vol' = 0
    /\ heap' = Collect(heap, user_settings, 0)
    /\ hist' = Track(hist, heap')
    /\ UNCHANGED <<notifications_sent, disk, sleep_for>>

\* lines 388-397: an exception reaches the pass level
ExceptHandler ==
    /\ mon_pc' = "sleep"
    /\ IF error_count + 1 >= max_errors
       THEN sleep_for' = BackoffSleep /\ error_count' = 0
       ELSE sleep_for' = ErrorSleep /\ error_count' = error_count + 1
    /\ snapshot' = <<>> /\ ci' = 0 /\ ai' = 0 /\ alert' = 0 /\ vol' = 0
    /\ heap' = Collect(heap, user_settings, 0)
    /\ hist' = Track(hist, heap')
    /\ UNCHANGED <<notifications_sent, disk>>

\* lines 311-314: the pass raises before the sweep (the store loaded from the
\* file is not validated, so the count of line 314 can raise)
PassRaises ==
    /\ mon_pc \in {"init_sleep", "sleep"}
    /\ is_monitoring_running
    /\ tick' = ~tick
    /\ ExceptHandler
    /\ reads' = <<>> /\ sent' = <<>> /\ failed' = FALSE
    /\ UNCHANGED <<user_settings, uiVars, is_monitoring_running>>

NotifiedThreshold(h, a, v) == [h EXCEPT ![a].last_notified = h[a].threshold]

\* line 343: `alert["last_notified"] = vol`
Notified(h, a, v) == [h EXCEPT ![a].last_notified = v]

\* lines 337-344, 360: the alert fires: last_notified is set, the firing is
\* counted and send_message is called
Fire(v) ==
    /\ heap' = Notified(heap, alert, v)
    /\ notifications_sent' = notifications_sent + 1
    /\ mon_pc' = "send"
    /\ vol' = v
    /\ sent' = Append(sent, [chat_id |-> snapshot[ci], oid |-> alert, vol |-> v])
    /\ hist' = Record(hist, alert, v, TRUE)
    /\ UNCHANGED <<snapshot, ci, ai, alert, error_count, sleep_for, disk>>

\* lines 333-365: fetch_volume returned v
FetchReturns(v) ==
    /\ mon_pc = "fetch"
    /\ reads' = Append(reads, [oid |-> alert, vol |-> v, raised |-> FALSE])
    /\ IF NoData(v)
       THEN /\ Continue(heap, notifications_sent, Record(hist, alert, v, FALSE),
                        snapshot, ci, ai + 1)
            /\ sent' = sent
       ELSE IF Fires(v, heap[alert].threshold, heap[alert].last_notified)
       THEN Fire(v)
       ELSE /\ Continue(heap, notifications_sent, Record(hist, alert, v, FALSE),
                        snapshot, ci, ai + 1)
            /\ sent' = sent
    /\ UNCHANGED <<user_settings, uiVars, failed, tick, is_monitoring_running>>

FetchAbortsPass ==
    /\ mon_pc = "fetch"
    /\ reads' = Append(reads, [oid |-> alert, vol |-> 0, raised |-> TRUE])
    /\ failed' = TRUE
    /\ ExceptHandler
    /\ UNCHANGED <<user_settings, uiVars, sent, tick, is_monitoring_running>>

\* lines 370-372: the fetch raised; the alert is logged and left
FetchRaises ==
    /\ mon_pc = "fetch"
    /\ reads' = Append(reads, [oid |-> alert, vol |-> 0, raised |-> TRUE])
    /\ failed' = TRUE
    /\ Continue(heap, notifications_sent, hist, snapshot, ci, ai + 1)
    /\ UNCHANGED <<user_settings, uiVars, sent, tick, is_monitoring_running>>

\* lines 360-366: send_message returned
SendReturns ==
    /\ mon_pc = "send"
    /\ Continue(heap, notifications_sent, hist, snapshot, ci, ai + 1)
    /\ UNCHANGED <<user_settings, uiVars, reads, sent, failed, tick,
                   is_monitoring_running>>

\* what send_message raises: the chat API's "retry after N seconds", or
\* anything else
SendErrors == {"RetryAfter", "NetworkError"}

SendRollsBack(e) ==
    /\ e \in SendErrors
    /\ mon_pc = "send"
    /\ failed' = TRUE
    /\ Continue([heap EXCEPT ![alert].last_notified = 0], notifications_sent - 1,
                hist, snapshot, ci, ai + 1)
    /\ UNCHANGED <<user_settings, uiVars, reads, sent, tick,
                   is_monitoring_running>>

\* lines 367-368: send_message raised e; whatever e is, it is logged
SendRaises(e) ==
    /\ e \in SendErrors
    /\ mon_pc = "send"
    /\ failed' = TRUE
    /\ Continue(heap, notifications_sent, hist, snapshot, ci, ai + 1)
    /\ UNCHANGED <<user_settings, uiVars, reads, sent, tick,
                   is_monitoring_running>>

\* what the dialogue keeps while the bot is stopped
dialogueVars == <<user_state, user_temp, ALL_SYMBOLS, pending, reply, edit_oid,
                  tracking, call>>

stop_without_cancel ==
    /\ is_monitoring_running
    /\ is_monitoring_running' = FALSE
    /\ stop_pc' = "stopping"
    /\ UNCHANGED <<dataVars, dialogueVars, monVars, histVars>>

\* lines 475, 401-412 with 385-387: post_stop calls stop_monitoring, which
\* clears the flag and cancels the task; the task receives CancelledError at
\* the await it is suspended in and ends
stop_monitoring ==
    /\ stop_pc = "none"
    /\ is_monitoring_running' = FALSE
    /\ stop_pc' = "stopping"
    /\ mon_pc' = IF mon_pc = "done" THEN "done" ELSE "cancelled"
    /\ snapshot' = <<>> /\ ci' = 0 /\ ai' = 0 /\ alert' = 0 /\ vol' = 0
    /\ heap' = Collect(heap, user_settings, 0)
    /\ hist' = Track(hist, heap')
    /\ UNCHANGED <<user_settings, disk, dialogueVars, reads, sent, failed, tick,
                   notifications_sent, error_count, sleep_for>>

\* lines 409-411, 478: the awaited task has ended and post_stop saves the store
post_stop ==
    /\ stop_pc = "stopping"
    /\ mon_pc \in {"done", "cancelled"}
    /\ stop_pc' = "stopped"
    /\ disk' = save_settings(user_settings, heap)
    /\ UNCHANGED <<user_settings, heap, dialogueVars, monVars, histVars,
                   is_monitoring_running>>

----------------------------------------------------------------------------
(* Text of a message: str methods and the regular expression of            *)
(* any_message, on sequences of characters.                                *)

LowerAlpha == <<"a", "b", "c", "d", "e", "f", "g", "h", "i", "j", "k", "l", "m",
                "n", "o", "p", "q", "r", "s", "t", "u", "v", "w", "x", "y", "z">>
UpperAlpha == <<"A", "B", "C", "D", "E", "F", "G", "H", "I", "J", "K", "L", "M",
                "N", "O", "P", "Q", "R", "S", "T", "U", "V", "W", "X", "Y", "Z">>
Digits == <<"0", "1", "2", "3", "4", "5", "6", "7", "8", "9">>
Whitespace == {" ", "\n"}

IndexOf(ch, s) ==
    IF \E i \in 1..Len(s) : s[i] = ch
    THEN CHOOSE i \in 1..Len(s) : s[i] = ch
    ELSE 0

\* str.upper(), str.lower()
Upper(t) ==
    [i \in 1..Len(t) |->
        IF IndexOf(t[i], LowerAlpha) > 0
        THEN UpperAlpha[IndexOf(t[i], LowerAlpha)] ELSE t[i]]
Lower(t) ==
    [i \in 1..Len(t) |->
        IF IndexOf(t[i], UpperAlpha) > 0
        THEN LowerAlpha[IndexOf(t[i], UpperAlpha)] ELSE t[i]]

\* str.strip()
RECURSIVE LStrip(_)
LStrip(t) ==
    IF t # <<>> /\ Head(t) \in Whitespace THEN LStrip(Tail(t)) ELSE t
RECURSIVE RStrip(_)
RStrip(t) ==
    IF t # <<>> /\ t[Len(t)] \in Whitespace
    THEN RStrip(SubSeq(t, 1, Len(t) - 1)) ELSE t
Strip(t) == RStrip(LStrip(t))

\* `w in t`
Contains(t, w) ==
    \E i \in 1..(Len(t) - Len(w) + 1) : SubSeq(t, i, i + Len(w) - 1) = w

\* str.endswith(w)
EndsWith(t, w) ==
    Len(t) >= Len(w) /\ SubSeq(t, Len(t) - Len(w) + 1, Len(t)) = w

\* str.replace(a, b) for single characters, and str.replace(a, '')
ReplaceCh(t, a, b) == [i \in 1..Len(t) |-> IF t[i] = a THEN b ELSE t[i]]
RECURSIVE RemoveCh(_, _)
RemoveCh(t, a) ==
    IF t = <<>> THEN <<>>
    ELSE IF Head(t) = a THEN RemoveCh(Tail(t), a)
    ELSE <<Head(t)>> \o RemoveCh(Tail(t), a)

\* str.split(): the maximal runs without whitespace
RECURSIVE SplitFrom(_, _)
SplitFrom(t, cur) ==
    IF t = <<>> THEN (IF cur = <<>> THEN <<>> ELSE <<cur>>)
    ELSE IF Head(t) \in Whitespace
    THEN (IF cur = <<>> THEN <<>> ELSE <<cur>>) \o SplitFrom(Tail(t), <<>>)
    ELSE SplitFrom(Tail(t), Append(cur, Head(t)))

IsDigit(ch) == IndexOf(ch, Digits) > 0

\* re.findall(r'\d+', t)[0]: the first maximal run of digits, <<>> if none
RECURSIVE DigitRun(_)
DigitRun(t) ==
    IF t # <<>> /\ IsDigit(Head(t)) THEN <<Head(t)>> \o DigitRun(Tail(t))
    ELSE <<>>
RECURSIVE FirstNumber(_)
FirstNumber(t) ==
    IF t = <<>> THEN <<>>
    ELSE IF IsDigit(Head(t)) THEN DigitRun(t)
    ELSE FirstNumber(Tail(t))

\* int(s) of a run of digits
RECURSIVE ToInt(_)
ToInt(ds) ==
    IF ds = <<>> THEN 0
    ELSE 10 * ToInt(SubSeq(ds, 1, Len(ds) - 1)) + (IndexOf(ds[Len(ds)], Digits) - 1)

USDT == <<"U", "S", "D", "T">>

NormalizeAsTyped(t) ==
    LET sym == Strip(t)
    IN  IF EndsWith(sym, USDT) THEN sym ELSE sym \o USDT

\* lines 616-618: the ticker of a single add as the store keeps it
Normalize(t) ==
    LET sym == Strip(Upper(t))
    IN  IF EndsWith(sym, USDT) THEN sym ELSE sym \o USDT

\* line 593: the words that open the menu (the Latin ones)
IsMenu(t) ==
    \/ t = <<>>
    \/ \E w \in {<<"s", "t", "a", "r", "t">>, <<"/", "s", "t", "a", "r", "t">>} :
          Contains(Lower(t), w)

\* line 682-685: the number typed as a threshold, -1 when there is none
ParseThreshold(t) ==
    LET ds == FirstNumber(RemoveCh(RemoveCh(t, ","), " "))
    IN  IF ds = <<>> THEN -1 ELSE ToInt(ds)

\* lines 649-654: one ticker of a bulk message (the message is in upper case
\* already)
NormalizeToken(tok) ==
    LET sym == Strip(tok)
    IN  IF EndsWith(sym, USDT) THEN sym ELSE sym \o USDT

\* lines 648-659: the valid tickers of a bulk message, in input order
RECURSIVE ValidOf(_, _)
ValidOf(tokens, universe) ==
    IF tokens = <<>> THEN <<>>
    ELSE (IF NormalizeToken(Head(tokens)) \in universe
          THEN <<NormalizeToken(Head(tokens))>> ELSE <<>>)
         \o ValidOf(Tail(tokens), universe)
\* lines 644 and 648: the message in upper case, cut at commas and blanks
Tokens(t) ==
    SplitFrom(ReplaceCh(ReplaceCh(Strip(Upper(t)), ",", " "), "\n", " "), <<>>)
ParseSymbols(t, universe) == ValidOf(Tokens(t), universe)

----------------------------------------------------------------------------
(* load_settings.  A mapping as the file holds it is a sequence of chats,  *)
(* each with its chat id and the list of its alert dicts.                  *)

\* the store as a mapping: the lists hold alert dicts instead of objects
Contents(us, h) ==
    [i \in 1..Len(us) |->
        [chat_id |-> us[i].chat_id,
         alerts  |-> [j \in 1..Len(us[i].alerts) |-> h[us[i].alerts[j]]]]]

IntOfDigits(s) ==
    IF s # <<>> /\ \A i \in 1..Len(s) : IsDigit(s[i])
    THEN [ok |-> TRUE, val |-> ToInt(s)]
    ELSE [ok |-> FALSE, val |-> 0]

\* line 95: int(k) of a str: blanks around it, a sign, digits; ValueError
\* (ok = FALSE) for anything else
IntOf(s) ==
    LET t  == Strip(s)
        ds == IF t # <<>> /\ Head(t) \in {"-", "+"} THEN Tail(t) ELSE t
    IN  IF ds # <<>> /\ \A i \in 1..Len(ds) : IsDigit(ds[i])
        THEN [ok  |-> TRUE,
              val |-> IF Head(t) = "-" THEN 0 - ToInt(ds) ELSE ToInt(ds)]
        ELSE [ok |-> FALSE, val |-> 0]

\* line 95: {int(k): v for k, v in data.items()}: a key that comes again keeps
\* its place and takes the later value
RECURSIVE FromItems(_, _)
FromItems(items, acc) ==
    IF items = <<>> THEN acc
    ELSE LET k == IntOf(Head(items).key).val
             e == [chat_id |-> k, alerts |-> Head(items).value]
         IN  FromItems(Tail(items),
                       IF \E i \in 1..Len(acc) : acc[i].chat_id = k
                       THEN [i \in 1..Len(acc) |->
                                IF acc[i].chat_id = k THEN e ELSE acc[i]]
                       ELSE Append(acc, e))

LoadPartial(d) ==
    IF d.kind # "json" THEN <<>>
    ELSE LET bad == {i \in 1..Len(d.doc) : ~IntOf(d.doc[i].key).ok}
             n   == IF bad = {} THEN Len(d.doc)
                    ELSE (CHOOSE i \in bad : \A j \in bad : i <= j) - 1
         IN  FromItems(SubSeq(d.doc, 1, n), <<>>)

\* lines 87-102: the mapping load_settings leaves in user_settings.  A file
\* that is absent, that json.load rejects ("garbage"), whose document is not an
\* object ("json_list") or has a key int() rejects, gives the empty mapping.
load_settings(d) ==
    IF d.kind # "json" THEN <<>>
    ELSE IF \E i \in 1..Len(d.doc) : ~IntOf(d.doc[i].key).ok THEN <<>>
    ELSE FromItems(d.doc, <<>>)

\* the objects json.load made: the alerts of mapping m before chat i
RECURSIVE Before(_, _)
Before(m, i) == IF i <= 1 THEN 0 ELSE Before(m, i - 1) + Len(m[i - 1].alerts)

\* user_settings and the alert objects for a loaded mapping
StoreOf(m) ==
    [i \in 1..Len(m) |->
        [chat_id |-> m[i].chat_id,
         alerts  |-> [j \in 1..Len(m[i].alerts) |-> Before(m, i) + j]]]
HeapOf(m) ==
    [o \in 1..Before(m, Len(m) + 1) |->
        LET i == CHOOSE i \in 1..Len(m) :
                     Before(m, i) < o /\ o <= Before(m, i) + Len(m[i].alerts)
        IN  m[i].alerts[o - Before(m, i)]]

----------------------------------------------------------------------------
(* fetch_volume.  What the exchange does to one HTTP request is an outcome: *)
(*   kind    "response", "timeout" (asyncio.TimeoutError) or "error" (any   *)
(*           other exception of the request)                                *)
(*   status  the HTTP status of a response                                  *)
(*   json    of a 200 body: "ok", "malformed" (r.json() raises) or          *)
(*           "no_dict" (`data` is no object)                                *)
(*   success the field `success` of the body                                *)
(*   amount  the list `data.amount`; an item is [t, text] with t "num",     *)
(*           "str" or "null" and text the decimal digits of a num or the    *)
(*           characters of a str                                            *)

\* line 283: int(float(x)) of the text of a number: the digits before the
\* point; ValueError (ok = FALSE) when the text is no number
IntOfFloat(text) ==
    LET whole == DigitRun(text)
        rest  == SubSeq(text, Len(whole) + 1, Len(text))
    IN  IF whole # <<>>
           /\ (rest = <<>> \/ (Head(rest) = "." /\ \A i \in 2..Len(rest) : IsDigit(rest[i])))
        THEN [ok |-> TRUE, val |-> ToInt(whole)]
        ELSE [ok |-> FALSE, val |-> 0]

\* lines 266-286: the body of the try for one request: the exception it
\* raises ("none" if none), whether it returns, and the value returned
Request(o) ==
    LET nothing == [exc |-> "none", returned |-> FALSE, val |-> 0]
        first   == o.amount[1]
        number  == IntOfFloat(first.text)
    IN  IF o.kind = "timeout" THEN [nothing EXCEPT !.exc = "TimeoutError"]
        ELSE IF o.kind = "error" THEN [nothing EXCEPT !.exc = "ClientError"]
        ELSE IF o.status # 200 THEN nothing
        ELSE IF o.json = "malformed" THEN [nothing EXCEPT !.exc = "ContentTypeError"]
        ELSE IF ~o.success THEN nothing
        ELSE IF o.json = "no_dict" THEN [nothing EXCEPT !.exc = "AttributeError"]
        ELSE IF o.amount = <<>> THEN nothing
        ELSE IF \/ first.t = "null"
                \/ first.t = "str" /\ first.text = <<>>
                \/ first.t = "num" /\ number.val = 0
                                   /\ \A i \in 1..Len(first.text) :
                                         first.text[i] \in {"0", "."}
        THEN nothing
        ELSE IF ~number.ok THEN [nothing EXCEPT !.exc = "ValueError"]
        ELSE [exc |-> "none", returned |-> TRUE, val |-> number.val]

HandleTimeoutOnly(exc) == IF exc = "TimeoutError" THEN "retry" ELSE "raise"

\* lines 287-292: the except clauses: asyncio.TimeoutError, then Exception
Handle(exc) ==
    IF exc = "TimeoutError" THEN "retry"
    ELSE IF exc \in {"ClientError", "ContentTypeError", "AttributeError",
                     "ValueError"}
    THEN "break"
    ELSE "raise"

\* lines 264-295: for attempt in range(2), on the outcomes os of the requests
RECURSIVE FetchLoop(_, _)
FetchLoop(os, attempt) ==
    LET r   == Request(os[attempt + 1])
        act == IF r.exc # "none" THEN Handle(r.exc)
               ELSE IF r.returned THEN "return" ELSE "retry"
        end == [result |-> 0, requests |-> attempt + 1, raised |-> FALSE]
    IN  IF attempt >= 2 THEN [end EXCEPT !.requests = attempt]
        ELSE IF act = "return" THEN [end EXCEPT !.result = r.val]
        ELSE IF act = "break" THEN end
        ELSE IF act = "raise" THEN [end EXCEPT !.raised = TRUE]
        ELSE FetchLoop(os, attempt + 1)

\* lines 253-295: the value fetch_volume returns, the requests it made and
\* whether an exception left it
fetch_volume(os) == FetchLoop(os, 0)

----------------------------------------------------------------------------
(* load_symbols.  The outcome of its one request has the fields kind,       *)
(* status, json and success of a fetch_volume outcome, and in `data` the    *)
(* exchange's names of the contracts ("BTC_USDT"); json is "no_symbol" when *)
(* an item of data has no symbol.                                           *)

\* line 230: x["symbol"].replace("_USDT", "USDT")
RECURSIVE FromExchange(_)
FromExchange(t) ==
    IF t = <<>> THEN <<>>
    ELSE IF Len(t) >= 5 /\ SubSeq(t, 1, 5) = <<"_">> \o USDT
    THEN USDT \o FromExchange(SubSeq(t, 6, Len(t)))
    ELSE <<Head(t)>> \o FromExchange(Tail(t))

\* a symbol of the universe other than the two the alerts are about
Sym(i) == <<"S">> \o StrNat(i) \o USDT

\* lines 243-248: the built-in list of 20 pairs
Fallback == {BTCUSDT, ETHUSDT} \cup {Sym(i) : i \in 3..20}

LoadSymbolsKeeps(u, o) == [result |-> FALSE, universe |-> u, raised |-> FALSE]

\* lines 221-251: what load_symbols returns, the universe it leaves in
\* ALL_SYMBOLS when it found u there, and whether an exception left it
load_symbols(u, o) ==
    LET exc == IF o.kind = "timeout" THEN "TimeoutError"
               ELSE IF o.kind = "error" THEN "ClientError"
               ELSE IF o.status # 200 THEN "none"
               ELSE IF o.json = "malformed" THEN "ContentTypeError"
               ELSE IF o.success /\ o.data # <<>> /\ o.json = "no_symbol"
               THEN "KeyError"
               ELSE "none"
        symbols == {FromExchange(o.data[i]) :
                       i \in {j \in 1..Len(o.data) :
                                 Contains(o.data[j], <<"_">> \o USDT)}}
    IN  IF exc = "none" /\ o.status = 200 /\ o.success /\ o.data # <<>>
        THEN [result |-> TRUE, universe |-> symbols, raised |-> FALSE]
        ELSE [result   |-> FALSE,
              universe |-> IF Cardinality(u) < 50 THEN Fallback ELSE u,
              raised   |-> exc \notin {"none", "TimeoutError", "ClientError",
                                       "ContentTypeError", "KeyError"}]

----------------------------------------------------------------------------
(* The dialogue: user_state, user_temp and the handlers.                   *)

\* user_temp[chat_id]: a dict with the keys symbol, symbols, interval and
\* edit_idx.  A key that is not set holds <<>>, "" or -1; `present` tells a
\* dict (possibly empty) from no entry for the chat.
NoDraft == [present |-> FALSE, symbol |-> <<>>, symbols |-> <<>>,
            interval |-> "", edit_idx |-> -1]
EmptyDraft == [NoDraft EXCEPT !.present = TRUE]

ThresholdStates == {"wait_threshold", "edit_threshold",
                    "wait_threshold_custom", "edit_threshold_custom"}
EditStates == {"edit_threshold", "edit_threshold_custom"}

\* lines 710-716, 736-742, 967-973, 1005-1011: a new alert dict
NewAlert(sym, interval, threshold) ==
    [symbol |-> sym, interval |-> interval, threshold |-> threshold,
     last_notified |-> 0, notifications_enabled |-> TRUE]

\* a fresh object: the smallest id that no object has and that the history
\* of the current pass does not mention
NewOid(h) ==
    LET used == DOMAIN h \cup {reads[i].oid : i \in 1..Len(reads)}
                         \cup {sent[i].oid : i \in 1..Len(sent)}
    IN  CHOOSE o \in 1..(Cardinality(used) + 1) :
            o \notin used /\ \A x \in 1..(o - 1) : x \in used

\* history: the alert an edit draft was opened for; -1 once it left the store
Intended(eo, tmp, us) ==
    [c \in Chats |->
        IF tmp[c].edit_idx = -1 THEN 0
        ELSE IF eo[c] \in Stored(us) THEN eo[c] ELSE -1]

NoReply == [tag |-> "none", n |-> 0]
Said(tag, n) == [tag |-> tag, n |-> n]

\* What a handler leaves behind: the store us with the objects h, written to
\* the file when `save`; the dialogue st, tmp; the handlers pend still
\* suspended; and the history.
Handler(us, h, save, st, tmp, pend, rep, eo) ==
    /\ DOMAIN h \subseteq 1..MaxOid
    /\ \A i \in 1..Len(us) : Len(us[i].alerts) <= MaxList
    /\ user_settings' = us
    /\ heap' = Collect(h, us, alert)
    /\ hist' = Track(hist, heap')
    /\ disk' = IF save THEN save_settings(us, h) ELSE disk
    /\ user_state' = st
    /\ user_temp' = tmp
    /\ pending' = pend
    /\ reply' = rep
    /\ edit_oid' = Intended(eo, tmp, us)
    /\ UNCHANGED <<ALL_SYMBOLS, tracking, call, stop_pc, monVars, reads, sent, failed, tick,
                   is_monitoring_running>>

\* A handler that changes nothing but what setdefault did (it only answers,
\* or it raised before its first write).
Answer(us, rep) ==
    Handler(us, heap, FALSE, user_state, user_temp, pending, rep, edit_oid)

\* The writes a handler makes after its last await, on the dialogue st, tmp:
\*   pop_both     lines 751-752, 986-987, 1001-1002, 1022-1023
\*   pop_state    line 663
\*   set_symbols  lines 666-667 (KeyError when the draft is gone)
Finish(k, c, syms, st, tmp, rep) ==
    IF k = "pop_both"
    THEN [st  |-> [st EXCEPT ![c] = "none"],
          tmp |-> [tmp EXCEPT ![c] = NoDraft], rep |-> rep]
    ELSE IF k = "pop_state"
    THEN [st |-> [st EXCEPT ![c] = "none"], tmp |-> tmp, rep |-> rep]
    ELSE IF ~tmp[c].present
    THEN [st |-> st, tmp |-> tmp, rep |-> NoReply]
    ELSE [st  |-> [st EXCEPT ![c] = "wait_multiple_interval"],
          tmp |-> [tmp EXCEPT ![c].symbols = syms],
          rep |-> NoReply]

\* A handler that wrote the store (us, h) awaits a reply and then makes the
\* writes k.  While it is suspended other handlers run; when MaxPending
\* handlers are suspended already, this one gets its reply at once.
Await(us, h, save, c, k, syms, rep) ==
    IF Len(pending) < MaxPending
    THEN Handler(us, h, save, user_state, user_temp,
                 Append(pending, [chat_id |-> c, k |-> k, symbols |-> syms]),
                 rep, edit_oid)
    ELSE LET f == Finish(k, c, syms, user_state, user_temp, rep)
         IN  Handler(us, h, save, f.st, f.tmp, pending, f.rep, edit_oid)

\* a suspended handler gets its reply and finishes
Resume(i) ==
    LET p    == pending[i]
        rest == [j \in 1..(Len(pending) - 1) |->
                    IF j < i THEN pending[j] ELSE pending[j + 1]]
        f    == Finish(p.k, p.chat_id, p.symbols, user_state, user_temp, reply)
    IN  Handler(user_settings, heap, FALSE, f.st, f.tmp, rest, f.rep, edit_oid)

NeverExisting(lst, h, sym, interval) == FALSE

\* lines 701-718 and 958-975: the loop of a bulk add over the tickers
Existing(lst, h, sym, interval) ==
    \E j \in 1..Len(lst) : h[lst[j]].symbol = sym /\ h[lst[j]].interval = interval

RECURSIVE BulkAdd(_, _, _, _, _, _)
BulkAdd(lst, h, syms, interval, threshold, n) ==
    IF syms = <<>> THEN [alerts |-> lst, heap |-> h, added |-> n]
    ELSE IF Existing(lst, h, Head(syms), interval)
    THEN BulkAdd(lst, h, Tail(syms), interval, threshold, n)
    ELSE LET o == NewOid(h)
         IN  BulkAdd(Append(lst, o),
                     h @@ (o :> NewAlert(Head(syms), interval, threshold)),
                     Tail(syms), interval, threshold, n + 1)

\* lines 695-724 and 952-987: the draft holds a list of tickers
ConfirmBulk(c, us, threshold) ==
    LET d == user_temp[c]
        r == BulkAdd(Get(us, c), heap, d.symbols, d.interval, threshold, 0)
    IN  IF d.interval = "" THEN Answer(us, NoReply)
        ELSE Await(Put(us, c, r.alerts), r.heap, TRUE, c, "pop_both", <<>>,
                   Said("added", r.added))

\* lines 726-733 and 989-1002: the threshold of the alert at edit_idx
ConfirmEdit(c, us, threshold) ==
    LET idx == user_temp[c].edit_idx
        lst == Get(us, c)
    IN  IF idx = -1 \/ idx >= Len(lst) THEN Answer(us, NoReply)
        ELSE Await(us, [heap EXCEPT ![lst[idx + 1]].threshold = threshold],
                   TRUE, c, "pop_both", <<>>, Said("updated", 0))

ConfirmAnyDraft(c, us, threshold) ==
    LET d == user_temp[c]
        o == NewOid(heap)
    IN  Await(Put(us, c, Append(Get(us, c), o)),
              heap @@ (o :> NewAlert(d.symbol, d.interval, threshold)),
              TRUE, c, "pop_both", <<>>, Said("added", 1))

\* lines 734-748 and 1003-1023: one alert from the draft
ConfirmSingle(c, us, threshold) ==
    LET d == user_temp[c]
        o == NewOid(heap)
    IN  IF ~d.present \/ d.symbol = <<>> \/ d.interval = ""
        THEN Answer(us, NoReply)
        ELSE Await(Put(us, c, Append(Get(us, c), o)),
                   heap @@ (o :> NewAlert(d.symbol, d.interval, threshold)),
                   TRUE, c, "pop_both", <<>>, Said("added", 1))

\* lines 693-753 and 949-1024: a threshold was chosen
ApplyThreshold(c, us, threshold, is_edit) ==
    IF user_temp[c].symbols # <<>> THEN ConfirmBulk(c, us, threshold)
    ELSE IF is_edit THEN ConfirmEdit(c, us, threshold)
    ELSE ConfirmSingle(c, us, threshold)

\* lines 615-641: the ticker of a single add
WaitSymbol(c, us, t) ==
    LET sym == Normalize(t)
    IN  IF sym \notin ALL_SYMBOLS THEN Answer(us, Said("symbol_not_found", 0))
        ELSE Handler(us, heap, FALSE,
                     [user_state EXCEPT ![c] = "wait_interval"],
                     [user_temp EXCEPT ![c] = [EmptyDraft EXCEPT !.symbol = sym]],
                     pending, NoReply, edit_oid)

\* lines 643-677: the tickers of a bulk add.  Each unknown ticker is answered
\* with an awaited message before the draft is written.
WaitMultiple(c, us, t) ==
    LET syms == ParseSymbols(t, ALL_SYMBOLS)
        f    == Finish("set_symbols", c, syms, user_state, user_temp, reply)
    IN  IF syms = <<>>
        THEN Await(us, heap, FALSE, c, "pop_state", <<>>,
                   Said("no_valid_symbol", 0))
        ELSE IF Len(Tokens(t)) > Len(syms)
        THEN Await(us, heap, FALSE, c, "set_symbols", syms,
                   Said("symbol_skipped", 0))
        ELSE Handler(us, heap, FALSE, f.st, f.tmp, pending, f.rep, edit_oid)

ThresholdTextUnchecked(c, us, t) ==
    LET threshold_value == ParseThreshold(t)
    IN  IF threshold_value = -1 THEN Answer(us, Said("not_a_number", 0))
        ELSE ApplyThreshold(c, us, threshold_value, user_state[c] \in EditStates)

\* lines 679-693: the threshold typed as text
ThresholdText(c, us, t) ==
    LET threshold_value == ParseThreshold(t)
    IN  IF threshold_value = -1 THEN Answer(us, Said("not_a_number", 0))
        ELSE IF threshold_value < MinThreshold
        THEN Answer(us, Said("below_minimum", 0))
        ELSE ApplyThreshold(c, us, threshold_value, user_state[c] \in EditStates)

\* any_message (lines 584-753) of the allowed user in chat c
Message(c, text) ==
    LET us == SetDefault(user_settings, c)
        t  == Strip(text)
    IN  IF IsMenu(t) THEN Answer(us, NoReply)
        ELSE IF user_state[c] = "wait_symbol" THEN WaitSymbol(c, us, t)
        ELSE IF user_state[c] = "wait_multiple_symbols" THEN WaitMultiple(c, us, t)
        ELSE IF user_state[c] \in ThresholdStates THEN ThresholdText(c, us, t)
        ELSE Answer(us, NoReply)

\* button_handler (lines 755-1047) of the allowed user in chat c

\* lines 765-769
Back(c) ==
    Handler(SetDefault(user_settings, c), heap, FALSE,
            [user_state EXCEPT ![c] = "none"],
            [user_temp EXCEPT ![c] = NoDraft],
            pending, NoReply, edit_oid)

\* lines 771-779
Add(c) ==
    Handler(SetDefault(user_settings, c), heap, FALSE,
            [user_state EXCEPT ![c] = "wait_symbol"], user_temp,
            pending, NoReply, edit_oid)

\* lines 781-792
AddMultiple(c) ==
    Handler(SetDefault(user_settings, c), heap, FALSE,
            [user_state EXCEPT ![c] = "wait_multiple_symbols"],
            [user_temp EXCEPT ![c] = EmptyDraft],
            pending, NoReply, edit_oid)

\* lines 812-860, 878-881, 1044-1047: status, list, delete, alert_options_i
\* and refresh_all show the store and write nothing
Show(c) == Answer(SetDefault(user_settings, c), NoReply)

\* lines 862-876: del_i
Del(c, idx) ==
    LET us  == SetDefault(user_settings, c)
        lst == Get(us, c)
    IN  IF idx < Len(lst)
        THEN Handler(Put(us, c, Pop(lst, idx)), heap, TRUE, user_state,
                     user_temp, pending, Said("deleted", 0), edit_oid)
        ELSE Answer(us, Said("not_found", 0))

ToggleOff(c, idx) ==
    LET us  == SetDefault(user_settings, c)
        lst == Get(us, c)
    IN  IF idx < Len(lst)
        THEN Handler(us, [heap EXCEPT ![lst[idx + 1]].notifications_enabled = FALSE],
                     TRUE, user_state, user_temp, pending,
                     Said("toggled", 0), edit_oid)
        ELSE Answer(us, Said("not_found", 0))

\* lines 883-892: toggle_notify_i
ToggleNotify(c, idx) ==
    LET us  == SetDefault(user_settings, c)
        lst == Get(us, c)
        o   == lst[idx + 1]
    IN  IF idx < Len(lst)
        THEN Handler(us,
                     [heap EXCEPT ![o].notifications_enabled =
                                        ~heap[o].notifications_enabled],
                     TRUE, user_state, user_temp, pending,
                     Said("toggled", 0), edit_oid)
        ELSE Answer(us, Said("not_found", 0))

\* lines 894-908: edit_i
Edit(c, idx) ==
    LET us  == SetDefault(user_settings, c)
        lst == Get(us, c)
    IN  IF idx < Len(lst)
        THEN Handler(us, heap, FALSE,
                     [user_state EXCEPT ![c] = "edit_interval"],
                     [user_temp EXCEPT ![c] = [EmptyDraft EXCEPT !.edit_idx = idx]],
                     pending, NoReply,
                     [edit_oid EXCEPT ![c] = lst[idx + 1]])
        ELSE Answer(us, Said("not_found", 0))

\* lines 924-935: the interval of the alert at edit_idx
EditInterval(c, us, interval) ==
    LET idx == user_temp[c].edit_idx
        lst == Get(us, c)
    IN  IF idx = -1 \/ idx >= Len(lst) THEN Answer(us, NoReply)
        ELSE Handler(us, [heap EXCEPT ![lst[idx + 1]].interval = interval],
                     FALSE, [user_state EXCEPT ![c] = "edit_threshold"],
                     user_temp, pending, NoReply, edit_oid)

\* lines 910-947: int_X
IntBtn(c, interval) ==
    LET us == SetDefault(user_settings, c)
        d  == user_temp[c]
    IN  IF d.symbols # <<>>
        THEN Handler(us, heap, FALSE,
                     [user_state EXCEPT ![c] = "wait_threshold"],
                     [user_temp EXCEPT ![c].interval = interval],
                     pending, NoReply, edit_oid)
        ELSE IF user_state[c] = "edit_interval"
        THEN EditInterval(c, us, interval)
        ELSE IF ~d.present THEN Answer(us, NoReply)
        ELSE Handler(us, heap, FALSE,
                     [user_state EXCEPT ![c] = "wait_threshold"],
                     [user_temp EXCEPT ![c].interval = interval],
                     pending, NoReply, edit_oid)

\* lines 949-1024: volbtn_V
VolBtn(c, volume) ==
    ApplyThreshold(c, SetDefault(user_settings, c), volume,
                   user_state[c] = "edit_threshold")

\* lines 1026-1042: vol_custom
VolCustom(c) ==
    LET state_prefix ==
            IF user_temp[c].symbols # <<>> THEN "wait_threshold"
            ELSE IF user_state[c] = "edit_threshold" THEN "edit_threshold"
            ELSE "wait_threshold"
    IN  Handler(SetDefault(user_settings, c), heap, FALSE,
                [user_state EXCEPT ![c] =
                    IF state_prefix = "edit_threshold"
                    THEN "edit_threshold_custom" ELSE "wait_threshold_custom"],
                user_temp, pending, NoReply, edit_oid)

\* lines 794-810 with load_symbols (221-251): refresh_symbols; syms is the
\* universe load_symbols leaves (the exchange's list, or the built-in one)
RefreshSymbols(c, syms) ==
    /\ user_settings' = SetDefault(user_settings, c)
    /\ ALL_SYMBOLS' = syms
    /\ reply' = Said("symbols", Cardinality(syms))
    /\ UNCHANGED <<heap, disk, user_state, user_temp, pending, edit_oid, tracking,
                   call, stop_pc, monVars, histVars, is_monitoring_running>>

\* a callback: its data split into the kind k and the arguments it carries
Btn(k, i, x, v, syms) == [k |-> k, i |-> i, x |-> x, v |-> v, syms |-> syms]

\* lines 761-1047: the branches of button_handler
Button(c, b) ==
    CASE b.k = "back"            -> Back(c)
      [] b.k = "add"             -> Add(c)
      [] b.k = "add_multiple"    -> AddMultiple(c)
      [] b.k = "refresh_symbols" -> RefreshSymbols(c, b.syms)
      [] b.k = "del"             -> Del(c, b.i)
      [] b.k = "toggle_notify"   -> ToggleNotify(c, b.i)
      [] b.k = "edit"            -> Edit(c, b.i)
      [] b.k = "int"             -> IntBtn(c, b.x)
      [] b.k = "volbtn"          -> VolBtn(c, b.v)
      [] b.k = "vol_custom"      -> VolCustom(c)
      [] OTHER                   -> Show(c)

\* the user the bot serves (the environment variable of line 49)
ALLOWED_USER_ID == 1

GateOpen(sender) == TRUE

\* lines 585 and 758: update.effective_user.id against ALLOWED_USER_ID
Gate(sender) == sender = ALLOWED_USER_ID

\* lines 584-587: any_message of any sender; the others are told that access
\* is denied, before the setdefault of line 590
any_message(sender, c, text) ==
    IF Gate(sender) THEN Message(c, text)
    ELSE /\ reply' = Said("access_denied", 0)
         /\ UNCHANGED <<dataVars, user_state, user_temp, ALL_SYMBOLS, pending,
                        edit_oid, tracking, call, stop_pc, monVars, histVars,
                        is_monitoring_running>>

\* lines 755-759: button_handler of any sender; the callback of another user
\* is answered (the spinner stops) and dropped
button_handler(sender, c, b) ==
    IF Gate(sender) THEN Button(c, b) ELSE UNCHANGED vars

----------------------------------------------------------------------------
(* What the operator sends, and the states the bot starts in.              *)

\* messages typed by the operator
TxtBtc    == <<"b", "t", "c">>
TxtXyz    == <<"x", "y", "z">>
TxtBulk   == <<"b", "t", "c", ",", "E", "T", "H", "U", "S", "D", "T", " ", "B", "T", "C">>
Txt10k    == <<"1", "0", ",", "0", "0", "0">>
Txt500    == <<"5", "0", "0">>
Texts ==
    {TxtBtc, TxtXyz, TxtBulk, <<"x", "y", "z", " ", "b", "t", "c">>, Txt10k,
     Txt500, <<"/", "s", "t", "a", "r", "t">>}

\* the chats the operator writes in
Active == {1}

\* buttons pressed by the operator: two of the intervals of intervals_kb, one
\* of the volumes of volume_kb, the list positions of any keyboard shown
Intervals == {"1h", "5m"}
PressedVolumes == {10000}
Indexes == 0..MaxList

\* thresholds of the alerts a run of the monitor starts with
InitThresholds == {5000, 6000}

\* the dialogue and the monitor after post_init
Started(tr) ==
    /\ tracking = tr
    /\ user_state = [c \in Chats |-> "none"]
    /\ user_temp = [c \in Chats |-> NoDraft]
    /\ ALL_SYMBOLS = {BTCUSDT, ETHUSDT}
    /\ pending = <<>>
    /\ reply = NoReply
    /\ edit_oid = [c \in Chats |-> 0]
    /\ is_monitoring_running = TRUE
    /\ mon_pc = "init_sleep"
    /\ snapshot = <<>> /\ ci = 0 /\ ai = 0 /\ alert = 0 /\ vol = 0
    /\ notifications_sent = 0
    /\ error_count = 0
    /\ sleep_for = InitialDelay
    /\ reads = <<>> /\ sent = <<>> /\ failed = FALSE /\ hist = <<>>
    /\ tick = FALSE
    /\ stop_pc = "none"
    /\ call = [op |-> "none"]

\* the stores a start with a data file is modelled with
Layouts ==
    { <<>>,
      <<[chat_id |-> 1, alerts |-> <<1>>]>>,
      <<[chat_id |-> 1, alerts |-> <<1, 2>>]>>,
      <<[chat_id |-> 1, alerts |-> <<1>>], [chat_id |-> 2, alerts |-> <<2>>]>>,
      <<[chat_id |-> 2, alerts |-> <<>>], [chat_id |-> 1, alerts |-> <<1, 2>>]>>,
      <<[chat_id |-> 1, alerts |-> <<1, 2>>], [chat_id |-> 2, alerts |-> <<3>>]>> }

\* load_settings (lines 87-102) read the store us from the data file
Loaded(us, ths, tr) ==
    /\ user_settings = us
    /\ heap \in [Stored(us) ->
                    [symbol : {BTCUSDT, ETHUSDT}, interval : {"1h", "5m"},
                     threshold : ths, last_notified : {0},
                     notifications_enabled : BOOLEAN]]
    /\ \A o \in DOMAIN heap :
          /\ heap[o].symbol = (IF o = 2 THEN ETHUSDT ELSE BTCUSDT)
          /\ heap[o].interval = (IF o = 3 THEN "5m" ELSE "1h")
    /\ disk = save_settings(user_settings, heap)
    /\ Started(tr)

\* the operator's updates: the dialogues that add alerts
NextDialogue ==
    \/ \E c \in Active, t \in Texts : Message(c, t)
    \/ \E i \in 1..Len(pending) : Resume(i)
    \/ \E c \in Active : Back(c)
    \/ \E c \in Active : Add(c)
    \/ \E c \in Active : AddMultiple(c)
    \/ \E c \in Active : Show(c)
    \/ \E c \in Active, i \in Indexes : Del(c, i)
    \/ \E c \in Active, x \in Intervals : IntBtn(c, x)
    \/ \E c \in Active, v \in PressedVolumes : VolBtn(c, v)
    \/ \E c \in Active : VolCustom(c)

\* the operator's updates: the buttons of the stored alerts
NextStore ==
    \/ \E c \in Active, t \in Texts : Message(c, t)
    \/ \E i \in 1..Len(pending) : Resume(i)
    \/ \E c \in Active : Back(c)
    \/ \E c \in Active : Show(c)
    \/ \E c \in Active, i \in Indexes : Del(c, i)
    \/ \E c \in Active, i \in Indexes : ToggleNotify(c, i)
    \/ \E c \in Active, i \in Indexes : Edit(c, i)
    \/ \E c \in Active, x \in Intervals : IntBtn(c, x)
    \/ \E c \in Active, v \in PressedVolumes : VolBtn(c, v)
    \/ \E c \in Active : VolCustom(c)

\* a pass of the monitor and what it awaits
NextPass ==
    \/ WakeUp
    \/ \E v \in Volumes : FetchReturns(v)
    \/ FetchRaises
    \/ SendReturns
    \/ \E e \in SendErrors : SendRaises(e)

\* the monitor with pass-level failures and the shutdown
NextMon ==
    \/ NextPass
    \/ PassRaises
    \/ stop_monitoring
    \/ post_stop

\* a first start: no data file
Fresh ==
    /\ user_settings = <<>>
    /\ heap = <<>>
    /\ disk = NoFile
    /\ Started(FALSE)

\* the add dialogues, from a first start
SpecUI == Fresh /\ [][NextDialogue]_vars

\* chat 1 and chat 2 hold enabled alerts from the data file
InitStore ==
    /\ Loaded(<<[chat_id |-> 1, alerts |-> <<1, 2>>],
                [chat_id |-> 2, alerts |-> <<3>>]>>, InitThresholds, FALSE)
    /\ \A o \in DOMAIN heap :
          heap[o].threshold = 5000 /\ heap[o].notifications_enabled

\* the buttons of the stored alerts; the operator writes in chat 1
SpecStore == InitStore /\ [][NextStore]_vars

\* the three ways to a threshold (single add, bulk add, edit), with the
\* smallest preset of volume_kb pressed and the thresholds typed
NextThreshold ==
    \/ \E c \in Active, t \in {TxtBtc, TxtBulk, Txt10k, Txt500} : Message(c, t)
    \/ \E i \in 1..Len(pending) : Resume(i)
    \/ \E c \in Active : Add(c)
    \/ \E c \in Active : AddMultiple(c)
    \/ \E c \in Active, i \in Indexes : Edit(c, i)
    \/ \E c \in Active : IntBtn(c, "1h")
    \/ \E c \in Active : VolBtn(c, MinThreshold)
    \/ \E c \in Active : VolCustom(c)

SpecThreshold == Fresh /\ [][NextThreshold]_vars

\* tickers as an operator may type them: a name in some case, with or without
\* the quote currency, with or without blanks around
Tickers ==
    {pad[1] \o base \o quote \o pad[2] :
        base  \in {<<"b", "t", "c">>, <<"B", "T", "C">>, <<"B", "t", "c">>,
                   <<"e", "t", "h">>, <<"x", "y", "z">>, <<"u", "s">>},
        quote \in {<<>>, <<"u", "s", "d", "t">>, USDT, <<"U", "s", "d", "T">>},
        pad   \in {<<<<>>, <<>>>>, <<<<" ">>, <<>>>>, <<<<>>, <<" ">>>>,
                   <<<<"\n">>, <<" ">>>>}}

\* lines 616-618 and 644-654 on the ticker t: what a single add makes of it,
\* and what a bulk add makes of a message that holds only t
CallNormalize(t) ==
    /\ call' = [op   |-> "normalize", arg |-> t, out |-> Normalize(t),
                bulk |-> [i \in 1..Len(Tokens(t)) |-> NormalizeToken(Tokens(t)[i])]]
    /\ UNCHANGED <<dataVars, user_state, user_temp, ALL_SYMBOLS, pending, reply,
                   edit_oid, tracking, stop_pc, monVars, histVars,
                   is_monitoring_running>>

\* what the exchange may do to a request
Outcome(kind, status, json, success, amount) ==
    [kind |-> kind, status |-> status, json |-> json, success |-> success,
     amount |-> amount]
Outcomes ==
    {Outcome("timeout", 0, "", FALSE, <<>>), Outcome("error", 0, "", FALSE, <<>>)}
    \cup {Outcome("response", st, "", FALSE, <<>>) : st \in {429, 500}}
    \cup {Outcome("response", 200, j, TRUE, <<>>) : j \in {"malformed", "no_dict", "ok"}}
    \cup {Outcome("response", 200, "ok", FALSE,
                  <<[t |-> "num", text |-> <<"6", "0", "0", "0">>]>>)}
    \cup {Outcome("response", 200, "ok", TRUE, <<a>>) :
            a \in {[t |-> "null", text |-> <<>>]}
                 \cup [t : {"str"},
                       text : {<<>>, <<"0">>, <<"a", "b", "c">>,
                               <<"3", "0", "0", "0">>,
                               <<"6", "0", "0", "0", ".", "7", "5">>}]
                 \cup [t : {"num"},
                       text : {<<"0">>, <<"3", "0", "0", "0">>,
                               <<"6", "0", "0", "0", ".", "7", "5">>}]}

\* line 333: a call of fetch_volume whose two requests meet the outcomes os
CallFetch(os) ==
    /\ call' = [op |-> "fetch_volume", arg |-> os, out |-> fetch_volume(os)]
    /\ UNCHANGED <<dataVars, user_state, user_temp, ALL_SYMBOLS, pending, reply,
                   edit_oid, tracking, stop_pc, monVars, histVars,
                   is_monitoring_running>>

\* lines 126, 430, 796: a call of load_symbols that finds the universe u and
\* whose request meets the outcome o
CallLoadSymbols(u, o) ==
    /\ call' = [op |-> "load_symbols", arg |-> <<u, o>>, out |-> load_symbols(u, o)]
    /\ UNCHANGED <<dataVars, user_state, user_temp, ALL_SYMBOLS, pending, reply,
                   edit_oid, tracking, stop_pc, monVars, histVars,
                   is_monitoring_running>>

\* the functions studied alone.  load_symbols finds no universe (the first
\* call), the built-in one, or one of 49, 50 or 60 symbols; the exchange
\* lists three contracts, one of them not in USDT, or 60 contracts.
NextCalls ==
    \/ \E t \in Tickers : CallNormalize(t)
    \/ \E o1, o2 \in Outcomes : CallFetch(<<o1, o2>>)
    \/ \E u \in {Fallback} \cup {{Sym(i) : i \in 1..n} : n \in {0, 49, 50, 60}},
          o \in [kind : {"response"}, status : {200}, json : {"ok", "malformed", "no_symbol"},
                 success : BOOLEAN,
                 data : {<<>>, <<<<"B", "T", "C", "_", "U", "S", "D", "T">>,
                                 <<"B", "T", "C", "_", "U", "S", "D">>,
                                 <<"E", "T", "H", "_", "U", "S", "D", "T">>>>,
                         [i \in 1..60 |-> <<"S">> \o StrNat(i) \o <<"_">> \o USDT]}]
               \cup [kind : {"timeout", "error", "response"}, status : {500},
                     json : {"ok"}, success : {TRUE}, data : {<<>>}] :
          CallLoadSymbols(u, o)

SpecCalls == Fresh /\ [][NextCalls]_vars

\* The users that write to the bot are the operator and somebody else; in a
\* private chat the chat id is the user id, so the senders are Chats.
Buttons ==
    {Btn(k, 0, "", 0, {}) : k \in {"back", "add", "del", "toggle_notify", "status"}}
    \cup {Btn("int", 0, "1h", 0, {}), Btn("volbtn", 0, "", 5000, {})}
    \cup {Btn("refresh_symbols", 0, "", 0, u) : u \in {{BTCUSDT}, {BTCUSDT, ETHUSDT}}}

\* updates of both users; the operator writes in chat 1, the other user in
\* either chat (chat 1 is then a group)
NextGate ==
    \/ \E sender \in Chats, c \in Chats, t \in {TxtBtc, TxtXyz, Txt10k} :
          (Gate(sender) => c \in Active) /\ any_message(sender, c, t)
    \/ \E sender \in Chats, c \in Chats, b \in Buttons :
          (Gate(sender) => c \in Active) /\ button_handler(sender, c, b)
    \/ \E i \in 1..Len(pending) : Resume(i)

SpecGate == Fresh /\ [][NextGate]_vars

\* the monitor and the operator together: passes over the loaded store while
\* the operator deletes alerts, toggles the first one and adds alerts in chat 1
NextRace ==
    \/ WakeUp
    \/ FetchReturns(6000)
    \/ SendReturns
    \/ \E i \in 1..Len(pending) : Resume(i)
    \/ \E c \in Active, i \in Indexes : Del(c, i)
    \/ \E c \in Active : ToggleNotify(c, 0)
    \/ \E c \in Active : Add(c)
    \/ \E c \in Active : Message(c, TxtBtc)
    \/ \E c \in Active : IntBtn(c, "1h")
    \/ \E c \in Active : VolBtn(c, 5000)

\* The coroutines of the program run on two event loops.  run_polling runs the
\* handlers and monitor_volumes on the loop of the main thread; on a
\* deployment with IS_RENDER set, __main__ (lines 1188-1192) starts web_thread,
\* whose target run_web_server ends in asyncio.run(server.serve()) (line 1118):
\* the endpoints of web_app are served by that second loop.
Thread(op) ==
    IF op \in {"root", "health", "stats"} THEN "web_thread" ELSE "MainThread"

\* lines 1080-1099: GET /stats counts the alerts and the chats of the mapping
stats ==
    /\ call' = [op |-> "stats", thread |-> Thread("stats"),
                out |-> [total_alerts |-> TotalAlerts(user_settings),
                         users_count  |-> Len(user_settings)]]
    /\ UNCHANGED <<dataVars, user_state, user_temp, ALL_SYMBOLS, pending, reply,
                   edit_oid, tracking, stop_pc, monVars, histVars,
                   is_monitoring_running>>

\* alerts are deleted and toggled in both chats while /stats is requested
NextWeb ==
    \/ \E c \in Chats, i \in Indexes : Del(c, i)
    \/ \E c \in Chats, i \in Indexes : ToggleNotify(c, i)
    \/ stats

SpecWeb == InitStore /\ [][NextWeb]_vars

\* chat 1 holds two alerts from the data file
InitRace == Loaded(<<[chat_id |-> 1, alerts |-> <<1, 2>>]>>, {5000}, FALSE)

SpecRace == InitRace /\ [][NextRace]_vars

\* a start on any of the stores
InitMon == \E us \in Layouts : Loaded(us, InitThresholds, FALSE)

\* the monitor alone, on a loaded store
SpecMon == InitMon /\ [][NextMon]_vars

\* a start on one alert, its history recorded
InitOne == Loaded(<<[chat_id |-> 1, alerts |-> <<1>>]>>, {0, 5000, 6000}, TRUE)

\* the passes of the monitor over one alert, with its history
SpecOne == InitOne /\ [][NextPass]_vars

\* the stores the monitor is followed on for ever
LiveLayouts ==
    { <<>>,
      <<[chat_id |-> 1, alerts |-> <<1>>]>>,
      <<[chat_id |-> 1, alerts |-> <<1, 2>>]>> }

InitLive == \E us \in LiveLayouts : Loaded(us, {5000}, FALSE)

\* asyncio resumes a coroutine whose sleep is over, and a fetch or a send ends
\* (the HTTP client has a timeout): a step of the pass that can be taken is
\* taken.  Nothing obliges a pass to raise or the bot to be stopped.
SpecLive == InitLive /\ [][NextMon]_vars /\ WF_vars(NextPass)

\* lines 415-434, after 1156-1181: run_polling ended with an exception after
\* its post_stop, and run_bot calls itself: post_init runs again in the same
\* process.  It loads the data file and the symbols and creates a new monitor
\* task; the globals user_state, user_temp and _is_monitoring_running are what
\* the first run left, and no line of the program sets the flag again.
post_init ==
    /\ stop_pc = "stopped"
    /\ stop_pc' = "none"
    /\ user_settings' = StoreOf(load_settings(disk))
    /\ heap' = HeapOf(load_settings(disk))
    /\ ALL_SYMBOLS' \in {ALL_SYMBOLS, {BTCUSDT}}
    /\ mon_pc' = "init_sleep"
    /\ sleep_for' = InitialDelay
    /\ snapshot' = <<>> /\ ci' = 0 /\ ai' = 0 /\ alert' = 0 /\ vol' = 0
    /\ notifications_sent' = 0
    /\ error_count' = 0
    /\ reads' = <<>> /\ sent' = <<>> /\ failed' = FALSE /\ hist' = <<>>
    /\ UNCHANGED <<disk, user_state, user_temp, pending, reply, edit_oid,
                   tracking, call, tick, is_monitoring_running>>

\* the monitor, the shutdown and the restart of run_bot
NextRestart ==
    \/ NextPass
    \/ stop_monitoring
    \/ post_stop
    \/ post_init

SpecRestart == InitLive /\ [][NextRestart]_vars

----------------------------------------------------------------------------
(* The data file on its own: stores that are saved, files that are loaded. *)

\* chat ids: a private chat, a longer id, a group (negative)
FileChats == {1, 25, -100}

FirstAlert == NewAlert(BTCUSDT, "1h", 5000)
SecondAlert ==
    [NewAlert(ETHUSDT, "5m", 10000) EXCEPT !.last_notified = 6000,
                                           !.notifications_enabled = FALSE]
AlertLists ==
    {<<>>, <<FirstAlert>>, <<FirstAlert, SecondAlert>>,
     <<SecondAlert, FirstAlert>>}

\* the mappings a run starts with: one or two chats
Mappings ==
    {<<[chat_id |-> c, alerts |-> l]>> : c \in FileChats, l \in AlertLists}
    \cup {<<[chat_id |-> x[1], alerts |-> x[3]], [chat_id |-> x[2], alerts |-> x[4]]>> :
            x \in {y \in FileChats \X FileChats \X AlertLists \X AlertLists :
                        y[1] # y[2]}}

\* files the program did not write
BadKey ==
    [kind |-> "json",
     doc  |-> <<[key |-> <<"1">>, value |-> <<FirstAlert>>],
                [key |-> <<"a", "b", "c">>, value |-> <<SecondAlert>>]>>]
\* absent, not JSON at all, a JSON list, a key that is no integer, keys that
\* int() accepts but str() never writes
OtherFiles ==
    {NoFile, [kind |-> "garbage", doc |-> <<>>],
     [kind |-> "json_list", doc |-> <<>>], BadKey,
     [kind |-> "json",
      doc  |-> <<[key |-> <<" ", "7">>, value |-> <<FirstAlert>>],
                 [key |-> <<"-", "3">>, value |-> <<>>],
                 [key |-> <<"0", "7">>, value |-> <<SecondAlert>>]>>]}

InitFile ==
    /\ \E m \in Mappings : user_settings = StoreOf(m) /\ heap = HeapOf(m)
    /\ disk = NoFile
    /\ Started(FALSE)

\* lines 78-85: save_settings()
SaveFile ==
    /\ disk' = save_settings(user_settings, heap)
    /\ UNCHANGED <<user_settings, heap, uiVars, monVars, histVars,
                   is_monitoring_running>>

\* line 427: load_settings() at the next start
LoadFile ==
    /\ user_settings' = StoreOf(load_settings(disk))
    /\ heap' = HeapOf(load_settings(disk))
    /\ UNCHANGED <<disk, uiVars, monVars, histVars, is_monitoring_running>>

\* the file is removed, damaged or edited while the bot is down
FileReplaced(d) ==
    /\ disk' = d
    /\ UNCHANGED <<user_settings, heap, uiVars, monVars, histVars,
                   is_monitoring_running>>

NextFile ==
    \/ SaveFile
    \/ LoadFile
    \/ \E d \in OtherFiles : FileReplaced(d)

SpecFile == InitFile /\ [][NextFile]_vars

----------------------------------------------------------------------------
(* The claims about monitor_volumes.                                       *)

\* the last fetch of the pass in progress
LastRead == reads[Len(reads)]

\* this step is the return of a fetch with a reading
FetchReturned ==
    /\ mon_pc = "fetch"
    /\ Len(reads') = Len(reads) + 1
    /\ ~reads'[Len(reads')].raised

\* the readings of the history, and which of them were notified
Readings(hs) == [i \in 1..Len(hs) |-> hs[i].vol]
FiredAt(hs) == {i \in 1..Len(hs) : hs[i].fired}

\* C1, the rule: when the fetch for an enabled alert with threshold T and
\* stored last_notified L returns v, send_message is called for that alert, with
\* v, if and only if v # 0 and v >= T and v # L; otherwise nothing is sent.
C1_Rule ==
    FetchReturned =>
        LET v == reads'[Len(reads')].vol
            a == heap[alert]
        IN  IF v # 0 /\ v >= a.threshold /\ v # a.last_notified
            THEN sent' = Append(sent, [chat_id |-> snapshot[ci], oid |-> alert,
                                       vol |-> v])
            ELSE sent' = sent

\* C1, the scenario: with T = 5000 and L = 0 at the start, the per-pass
\* readings 0, 3000, 6000, 6000, 7000 are notified on the third and the fifth
\* pass and on no other.
C1_Scenario ==
    (Len(hist) >= 5 /\ heap[1].threshold = 5000
        /\ SubSeq(Readings(hist), 1, 5) = <<0, 3000, 6000, 6000, 7000>>)
    => FiredAt(hist) \cap (1..5) = {3, 5}

\* C1: the firing rule of monitor_volumes, in every step and in the scenario
C1_FiringRule == [][C1_Rule]_vars /\ []C1_Scenario

C1_Witness ==
    /\ Len(hist) >= 5 /\ heap[1].threshold = 5000
    /\ SubSeq(Readings(hist), 1, 5) = <<0, 3000, 6000, 6000, 7000>>
    /\ FiredAt(hist) \cap (1..5) = {3, 5}

\* C2: an alert with notifications_enabled false is skipped by every pass: no
\* fetch is made for it, it is never the alert the monitor works on, nothing is
\* sent for it and its last_notified keeps the value it had.
C2_DisabledSkipped ==
    \A o \in DOMAIN heap :
        ~heap[o].notifications_enabled =>
            /\ alert # o
            /\ heap[o].last_notified = 0
            /\ \A i \in 1..Len(reads) : reads[i].oid # o
            /\ \A i \in 1..Len(sent) : sent[i].oid # o

\* a pass is over in which a disabled alert stood before an enabled alert of the
\* same chat that was fetched and notified
C2_Witness ==
    /\ mon_pc = "sleep"
    /\ \E i \in 1..Len(user_settings) :
          LET lst == user_settings[i].alerts
          IN  /\ Len(lst) = 2
              /\ ~heap[lst[1]].notifications_enabled
              /\ \E k \in 1..Len(sent) : sent[k].oid = lst[2]

\* C3: right after the alert fired (monitor_volumes is in send_message), its
\* last_notified is the volume the fetch just returned.
C3_LastNotifiedIsReading ==
    mon_pc = "send" =>
        /\ ~LastRead.raised /\ LastRead.oid = alert
        /\ heap[alert].last_notified = LastRead.vol
        /\ vol = LastRead.vol

\* the only alert was notified at 6000 in an earlier pass, which was saved, and
\* fires again at 7000, above its threshold of 5000
C3_Witness ==
    /\ mon_pc = "send"
    /\ TotalAlerts(user_settings) = 1
    /\ disk.doc[1].value[1].last_notified = 6000
    /\ heap[alert].threshold = 5000
    /\ heap[alert].last_notified = 7000

\* C4 as the claim states it: while the readings stay at or above the
\* threshold, the alert is notified at most once.
C4_OnePerCrossing ==
    \A i, j \in FiredAt(hist) :
        (i < j /\ \A k \in i..j : hist[k].vol >= heap[1].threshold) => FALSE

\* C4, amended: two notifications of one alert that follow each other never
\* carry the same reading, so a run of equal readings is notified at most once.
C4_NoRepeatedReading ==
    \A i, j \in FiredAt(hist) :
        (i < j /\ FiredAt(hist) \cap ((i + 1)..(j - 1)) = {})
            => hist[i].vol # hist[j].vol

\* two notifications within one crossing, then the second reading again
C4_Witness ==
    /\ heap[1].threshold = 5000
    /\ Len(hist) >= 3
    /\ SubSeq(Readings(hist), 1, 3) = <<6000, 7000, 7000>>
    /\ FiredAt(hist) \cap (1..3) = {1, 2}

\* C5, the step: a fetch that returns 0 leaves the alert as it was and sends
\* nothing.
C5_Rule ==
    (FetchReturned /\ reads'[Len(reads')].vol = 0) =>
        /\ alert \in DOMAIN heap' /\ heap'[alert] = heap[alert]
        /\ sent' = sent
        /\ notifications_sent' = notifications_sent

\* C5, the sequel: after a notified reading v and readings of 0, the reading v
\* is not notified again.
C5_Sequel ==
    \A i, j \in 1..Len(hist) :
        (/\ i + 1 < j /\ hist[i].fired /\ hist[j].vol = hist[i].vol
         /\ \A k \in (i + 1)..(j - 1) : hist[k].vol = 0)
        => ~hist[j].fired

\* C5: a reading of 0 changes nothing and sends nothing, then and later
C5_ZeroReading == [][C5_Rule]_vars /\ []C5_Sequel

\* notified at 6000, then a reading of 0, then 6000 again and no notification
C5_Witness ==
    /\ Len(hist) >= 3
    /\ SubSeq(Readings(hist), 1, 3) = <<6000, 0, 6000>>
    /\ FiredAt(hist) \cap (1..3) = {1}
    /\ heap[1].last_notified = 6000

\* C10: as long as stop_monitoring has not been called, every pass, a pass that
\* raised at pass level included, is followed by another pass.
C10_LoopGoesOn ==
    \A b \in BOOLEAN :
        (tick = b) ~> (tick # b \/ ~is_monitoring_running)

\* after five passes in a row that raised, the pass after the long sleep is
\* under way
C10_Witness ==
    /\ is_monitoring_running
    /\ mon_pc = "fetch"
    /\ sleep_for = BackoffSleep

\* C9: a pass in which a fetch or a send raised still fetched every enabled
\* alert of every chat and ended as a clean pass: the error counter is 0 and the
\* monitor sleeps check_interval.
C9_FailureIsolated ==
    (mon_pc = "sleep" /\ failed) =>
        /\ error_count = 0
        /\ sleep_for = check_interval
        /\ \A o \in Stored(user_settings) :
              heap[o].notifications_enabled =>
                  \E i \in 1..Len(reads) : reads[i].oid = o

\* the first fetch of the pass raised, two more alerts were fetched after it and
\* one was notified
C9_Witness ==
    /\ mon_pc = "sleep" /\ failed
    /\ Len(reads) = 3 /\ reads[1].raised /\ ~reads[3].raised
    /\ Len(sent) >= 1

----------------------------------------------------------------------------
(* The claims about the handlers.                                          *)

\* the alerts of chat c, as dicts
AlertsOf(us, h, c) == [j \in 1..Len(Get(us, c)) |-> h[Get(us, c)[j]]]

\* C6: no chat's list holds two alerts with the same symbol and interval.
C6_Unique ==
    \A c \in Chats :
        LET lst == AlertsOf(user_settings, heap, c)
        IN  \A i, j \in 1..Len(lst) :
                (lst[i].symbol = lst[j].symbol
                    /\ lst[i].interval = lst[j].interval) => i = j

\* C7: a step changes the interval or the threshold of a stored alert only if
\* an edit dialogue was started for that very alert.
C7_Rule ==
    \A o \in (DOMAIN heap) \cap (DOMAIN heap') :
        (heap'[o].interval # heap[o].interval
            \/ heap'[o].threshold # heap[o].threshold)
        => \E c \in Chats : edit_oid[c] = o

\* C7: an edit dialogue never writes to another alert than its own
C7_StaleIndex == [][C7_Rule]_vars

\* C8: del_i with i < len(alerts) leaves the list of the chat without its
\* element i and otherwise as it was, leaves the lists of the other chats and
\* every remaining alert as they were, and saves; with i >= len(alerts) the
\* store and the file stay as they were and 'not found' is reported.
C8_Rule ==
    \A c \in Active, i \in Indexes :
        Del(c, i) =>
            LET lst == Get(user_settings, c)
            IN  IF i < Len(lst)
                THEN /\ Get(user_settings', c)
                            = SubSeq(lst, 1, i) \o SubSeq(lst, i + 2, Len(lst))
                     /\ \A d \in Chats \ {c} :
                            Get(user_settings', d) = Get(user_settings, d)
                     /\ \A d \in Chats :
                            \A j \in 1..Len(Get(user_settings', d)) :
                                LET o == Get(user_settings', d)[j]
                                IN  heap'[o] = heap[o]
                     /\ disk' = save_settings(user_settings', heap')
                     /\ reply'.tag = "deleted"
                ELSE /\ \A d \in Chats :
                            AlertsOf(user_settings', heap', d)
                                = AlertsOf(user_settings, heap, d)
                     /\ disk' = disk
                     /\ reply'.tag = "not_found"

\* C8: what del_i removes and what it leaves
C8_DeleteByIndex == [][C8_Rule]_vars

\* del_0 was handled in chat 1: the alert that stood at index 1 stands at
\* index 0, chat 2 has its alert, and the file says so
C8_Witness ==
    /\ reply.tag = "deleted"
    /\ Get(user_settings, 1) = <<2>>
    /\ Get(user_settings, 2) = <<3>>
    /\ disk = save_settings(user_settings, heap)

----------------------------------------------------------------------------
(* The claims about the shutdown.                                          *)

\* C11: when the monitor has stopped after the shutdown signal, the pass it
\* was in was finished: every enabled alert of the store was fetched in it.
C11_FinishesPass ==
    (~is_monitoring_running /\ mon_pc \in {"done", "cancelled"} /\ reads # <<>>)
    => \A o \in Stored(user_settings) :
          heap[o].notifications_enabled =>
              \E i \in 1..Len(reads) : reads[i].oid = o

\* C12, the steps: once stop_monitoring was called no fetch returns and nothing
\* is sent.
C12_Rule == ~is_monitoring_running => (reads' = reads /\ sent' = sent)

\* C12: stop_monitoring ends the task at whatever wait it is in, without a
\* further fetch or send, and what post_stop then saves is the store with every
\* last_notified the interrupted pass wrote.
C12_CancelAndSave ==
    /\ [][C12_Rule]_vars
    /\ [](~is_monitoring_running => mon_pc \in {"done", "cancelled"})
    /\ [](stop_pc = "stopped" => disk = save_settings(user_settings, heap))

\* the pass was interrupted after its first notification, with an enabled alert
\* not yet fetched, and post_stop has saved the notified reading
C12_Witness ==
    /\ stop_pc = "stopped" /\ mon_pc = "cancelled"
    /\ Len(sent) = 1
    /\ \E o \in Stored(user_settings) :
          /\ heap[o].notifications_enabled
          /\ \A i \in 1..Len(reads) : reads[i].oid # o
    /\ \E i \in 1..Len(disk.doc) : \E j \in 1..Len(disk.doc[i].value) :
          disk.doc[i].value[j].last_notified = sent[1].vol

----------------------------------------------------------------------------
(* The claims about the data file.                                         *)

\* C13: for the store at hand, what load_settings reads from the file that
\* save_settings writes is the same mapping: the chat ids as integers, the
\* alerts with their five fields, all in the same order; and a load from the
\* store's own file leaves the store as it is.
C13_RoundTrip ==
    /\ [](load_settings(save_settings(user_settings, heap))
            = Contents(user_settings, heap))
    /\ [][(LoadFile /\ disk = save_settings(user_settings, heap))
            => Contents(user_settings', heap') = Contents(user_settings, heap)]_vars

\* a store with a group chat and a disabled, notified alert is on file
C13_Witness ==
    /\ disk = save_settings(user_settings, heap)
    /\ Len(user_settings) = 2
    /\ user_settings[1].chat_id = -100 /\ user_settings[2].chat_id = 25
    /\ Contents(user_settings, heap)[1].alerts = <<SecondAlert, FirstAlert>>

\* the file is absent, is not JSON, is not a JSON object or has a key that is
\* not an integer
Corrupt(d) ==
    \/ d.kind \in {"absent", "garbage", "json_list"}
    \/ \E i \in 1..Len(d.doc) :
          LET k == Strip(d.doc[i].key)
          IN  \/ k = <<>>
              \/ \E j \in 1..Len(k) :
                    ~(IsDigit(k[j]) \/ (j = 1 /\ k[j] \in {"-", "+"}))
              \/ \A j \in 1..Len(k) : ~IsDigit(k[j])

\* C14: a load from an absent or corrupt file leaves the empty mapping.
C14_LoadNeverFails ==
    [][(LoadFile /\ Corrupt(disk))
        => (user_settings' = <<>> /\ heap' = <<>>)]_vars

\* the file has a key that is no integer and the store, which held alerts at
\* the start, is empty after the load
C14_Witness ==
    /\ disk = BadKey
    /\ user_settings = <<>> /\ heap = <<>>

----------------------------------------------------------------------------
(* The claims about what the operator types.                               *)

\* C15: every stored threshold is a whole number of at least 1000, whether a
\* single add, a bulk add or an edit wrote it, from a preset or from text;
\* "10,000" typed is written as 10000; a typed value below 1000 is answered
\* with the minimum and leaves the store, the file and the dialogue as they are.
C15_Typed10k ==
    \A c \in Active :
        (Message(c, Txt10k) /\ user_state[c] \in ThresholdStates /\ heap' # heap)
        => \E o \in DOMAIN heap' :
              /\ heap'[o].threshold = 10000
              /\ o \in DOMAIN heap => heap[o].threshold # 10000
C15_Typed500 ==
    \A c \in Active :
        (Message(c, Txt500) /\ user_state[c] \in ThresholdStates)
        => /\ reply' = Said("below_minimum", 0)
           /\ UNCHANGED <<user_settings, heap, disk, user_state, user_temp>>
C15_ThresholdMinimum ==
    /\ [](\A o \in Stored(user_settings) :
            heap[o].threshold \in Nat /\ heap[o].threshold >= MinThreshold)
    /\ [][C15_Typed10k /\ C15_Typed500]_vars

\* a typed 10000 and a pressed 1000 are stored, and 500 typed for the edited
\* alert has just been refused
C15_Witness ==
    /\ reply = Said("below_minimum", 0)
    /\ user_state[1] = "edit_threshold_custom"
    /\ user_temp[1].edit_idx # -1
    /\ \E o \in Stored(user_settings) : heap[o].threshold = 10000
    /\ \E o \in Stored(user_settings) : heap[o].threshold = MinThreshold

\* C16: the ticker a single add stores is in upper case and ends with USDT;
\* storing it again changes nothing; BTC, BTCUSDT and btcusdt all give BTCUSDT;
\* and a bulk add makes the same of a ticker as a single add.
C16_Normalization ==
    call.op = "normalize" =>
        /\ Normalize(call.out) = call.out
        /\ Upper(call.out) = call.out /\ EndsWith(call.out, USDT)
        /\ call.arg \in {<<"B", "T", "C">>, BTCUSDT,
                          <<"b", "t", "c", "u", "s", "d", "t">>}
              => call.out = BTCUSDT
        /\ call.bulk = <<call.out>>

\* btcusdt was typed and BTCUSDT came out
C16_Witness ==
    /\ call.op = "normalize"
    /\ call.arg = <<"b", "t", "c", "u", "s", "d", "t">>
    /\ call.out = BTCUSDT

\* the message t fails validation in the state chat c is in
FailsValidation(c, t) ==
    /\ ~IsMenu(Strip(t))
    /\ \/ user_state[c] = "wait_symbol" /\ Normalize(Strip(t)) \notin ALL_SYMBOLS
       \/ /\ user_state[c] = "wait_multiple_symbols"
          /\ ParseSymbols(Strip(t), ALL_SYMBOLS) = <<>>
       \/ /\ user_state[c] \in ThresholdStates
          /\ ParseThreshold(Strip(t)) < MinThreshold

\* the dialogue and the alerts of chat c are as they were
SameDialogue(c) ==
    /\ user_state'[c] = user_state[c]
    /\ user_temp'[c] = user_temp[c]
    /\ AlertsOf(user_settings', heap', c) = AlertsOf(user_settings, heap, c)

\* C17: the handler of a message that fails validation (an unknown symbol, a
\* bulk list with no valid symbol, a threshold that is no number or is below
\* 1000) leaves user_state, user_temp and the chat's alerts as they were, up
\* to and including its last write after the reply.
C17_Rule ==
    /\ \A c \in Active, t \in Texts :
          (Message(c, t) /\ FailsValidation(c, t)) => SameDialogue(c)
    /\ \A i \in 1..Len(pending) :
          (Resume(i) /\ pending[i].k = "pop_state")
          => SameDialogue(pending[i].chat_id)
C17_ValidationKeepsState == [][C17_Rule]_vars

\* C18: a message or a callback of a user other than ALLOWED_USER_ID, in
\* whatever chat, leaves the alert store, the file, user_state, user_temp and
\* the symbol universe as they are; such updates are therefore invisible in
\* every later state of these variables.
C18_Rule ==
    \A sender \in Chats \ {ALLOWED_USER_ID}, c \in Chats :
        (\/ \E t \in {TxtBtc, TxtXyz, Txt10k} : any_message(sender, c, t)
         \/ \E b \in Buttons : button_handler(sender, c, b))
        => UNCHANGED <<user_settings, heap, disk, user_state, user_temp,
                       ALL_SYMBOLS>>
C18_AccessGate == [][C18_Rule]_vars

\* the other user was refused while the operator, with an alert stored and
\* the universe refreshed, was asked for a symbol
C18_Witness ==
    /\ reply = Said("access_denied", 0)
    /\ user_state[1] = "wait_symbol"
    /\ ALL_SYMBOLS = {BTCUSDT}
    /\ Len(user_settings) = 1 /\ Len(user_settings[1].alerts) = 1

----------------------------------------------------------------------------
(* The claims about the calls to the chat API and to the exchange.         *)

\* C19: when send_message raises "retry after N seconds" for a notification,
\* the same notification is sent once more.
C19_RetryAfterRateLimit ==
    [][SendRaises("RetryAfter") => (mon_pc' = "send" /\ alert' = alert)]_vars

\* a 200 response with a body that parses, reports success and has a first
\* amount that is not null, not empty and not zero
SuccessPayload(o) ==
    /\ o.kind = "response" /\ o.status = 200 /\ o.json = "ok" /\ o.success
    /\ o.amount # <<>>
    /\ o.amount[1].t # "null"
    /\ o.amount[1].text \notin {<<>>, <<"0">>}

\* C20: no exception leaves fetch_volume; it makes one or two requests; it
\* returns 0 unless one of its requests met a success payload; and a
\* success payload with the amount 6000.75 at the first request gives 6000
\* with no second request.
C20_FetchVolume ==
    call.op = "fetch_volume" =>
        /\ ~call.out.raised
        /\ call.out.requests \in 1..2
        /\ (\A i \in 1..call.out.requests : ~SuccessPayload(call.arg[i]))
              => call.out.result = 0
        /\ (SuccessPayload(call.arg[1])
             /\ call.arg[1].amount[1].text = <<"6", "0", "0", "0", ".", "7", "5">>)
              => (call.out.result = 6000 /\ call.out.requests = 1)

\* a rate-limit status, then a body that is no JSON: two requests, 0 returned
C20_Witness ==
    /\ call.op = "fetch_volume"
    /\ call.arg[1].kind = "response" /\ call.arg[1].status = 429
    /\ call.arg[2].kind = "response" /\ call.arg[2].json = "malformed"
    /\ call.out = [result |-> 0, requests |-> 2, raised |-> FALSE]

\* the request of load_symbols failed: a transport error, a status other than
\* 200, a body that is no JSON or has an item without symbol, or a payload
\* that reports no success or lists nothing
LoadFailed(o) ==
    \/ o.kind # "response" \/ o.status # 200
    \/ o.json # "ok" \/ ~o.success \/ o.data = <<>>

\* C21: no exception leaves load_symbols; when the request fails it returns
\* False and leaves a universe of 50 symbols or more as it is and puts the 20
\* built-in symbols in place of a smaller one; when the request succeeds it
\* returns True and the universe is the fetched list of USDT contracts, with
\* nothing left of the old one.
C21_LoadSymbols ==
    call.op = "load_symbols" =>
        LET u == call.arg[1]
            o == call.arg[2]
        IN  /\ ~call.out.raised
            /\ Cardinality(Fallback) = 20
            /\ LoadFailed(o) =>
                  /\ call.out.result = FALSE
                  /\ call.out.universe = IF Cardinality(u) >= 50 THEN u ELSE Fallback
            /\ ~LoadFailed(o) =>
                  /\ call.out.result = TRUE
                  /\ Len(o.data) = 3 => call.out.universe = {BTCUSDT, ETHUSDT}
                  /\ Len(o.data) = 60 => call.out.universe = {Sym(i) : i \in 1..60}

\* the request timed out with 49 symbols in the universe: the built-in list
\* took their place
C21_Witness ==
    /\ call.op = "load_symbols"
    /\ call.arg[2].kind = "timeout"
    /\ Cardinality(call.arg[1]) = 49
    /\ call.out = [result |-> FALSE, universe |-> Fallback, raised |-> FALSE]

----------------------------------------------------------------------------
(* The claims about the monitor and the operator together.                 *)

\* the alerts the pass will still fetch from list position (c, a) on, if the
\* store stays as it is
RECURSIVE Rest(_, _, _, _, _)
Rest(us, h, snap, c, a) ==
    LET p == NextPos(us, h, snap, c, a)
    IN  IF p = <<0, 0>> THEN {}
        ELSE {Get(us, snap[p[1]])[p[2]]} \cup Rest(us, h, snap, p[1], p[2] + 1)

\* C22: while a pass is suspended in a fetch or a send, an add or a delete of
\* the operator leaves the pass with exactly the alerts it still had to
\* evaluate, less the one deleted: none is added and none that stays in the
\* store is skipped.
C22_Rule ==
    (/\ mon_pc \in {"fetch", "send"} /\ mon_pc' = mon_pc
     /\ UNCHANGED <<snapshot, ci, ai, reads>>
     /\ user_settings' # user_settings)
    => Rest(user_settings', heap', snapshot, ci, ai + 1)
         = Rest(user_settings, heap, snapshot, ci, ai + 1) \cap Stored(user_settings')
C22_PointInTime == [][C22_Rule]_vars

C23_Rule ==
    /\ (mon_pc' = "fetch" /\ (mon_pc # "fetch" \/ reads' # reads))
        => /\ alert' \in Range(Get(user_settings', snapshot'[ci']))
           /\ heap'[alert'].notifications_enabled
    /\ (mon_pc = "fetch" /\ mon_pc' = "send")
        => /\ alert' = alert
           /\ sent' = Append(sent, [chat_id |-> snapshot[ci], oid |-> alert,
                                    vol |-> reads'[Len(reads')].vol])
C30_FetchedOnce ==
    /\ \A i, j \in 1..Len(reads) : i # j => reads[i].oid # reads[j].oid
    /\ mon_pc = "fetch" => \A i \in 1..Len(reads) : reads[i].oid # alert

\* the pass fetched the first alert, the operator meanwhile deleted it and
\* added an alert, and the pass is at the fetch of the added one
C30_Witness ==
    /\ mon_pc = "fetch"
    /\ Len(reads) = 1
    /\ reads[1].oid \notin Stored(user_settings)
    /\ reply = Said("added", 1)
    /\ heap[alert].last_notified = 0 /\ alert \notin {1, 2}

----------------------------------------------------------------------------
(* The claims about the end of a pass.                                     *)

\* C28: while the loop sleeps after a pass that no exception ended (the sleep
\* of check_interval seconds), a pass that found no alerts included,
\* error_count is 0; and error_count never exceeds max_errors.
C28_CleanPassResets ==
    /\ (mon_pc = "sleep" /\ sleep_for = check_interval) => error_count = 0
    /\ error_count <= max_errors

\* a pass ends without an exception: the loop goes to its inter-pass sleep
EndOfPass ==
    /\ mon_pc' = "sleep" /\ sleep_for' = check_interval
    /\ mon_pc \in {"fetch", "send"} \/ tick' # tick

\* C24: a pass in which an alert fired ends with the data file holding the
\* store as it is in memory, the last_notified of every alert fired with it,
\* before the inter-pass sleep; a pass in which none fired leaves the file as
\* it was.
C24_Rule ==
    EndOfPass =>
        IF sent' # <<>>
        THEN /\ disk' = [kind |-> "json", doc |-> Dump(user_settings', heap')]
             /\ \A i \in 1..Len(sent') :
                   sent'[i].oid \in Stored(user_settings')
                   => \E c \in 1..Len(disk'.doc) :
                        \E j \in 1..Len(disk'.doc[c].value) :
                           /\ disk'.doc[c].value[j] = heap'[sent'[i].oid]
                           /\ disk'.doc[c].value[j].last_notified = sent'[i].vol
        ELSE disk' = disk
----------------------------------------------------------------------------
(* The claims about the buttons of a stored alert.                         *)

\* C25: toggle_notify_i on a list that has index i negates the
\* notifications_enabled of the alert at i and nothing else: the other
\* fields of the alert, every other alert, the lists and their order stay,
\* the alert is still stored, and the data file holds the new store.
C25_Rule ==
    \A c \in Active, i \in Indexes :
        (ToggleNotify(c, i) /\ i < Len(Get(user_settings, c)))
        => LET o == Get(user_settings, c)[i + 1]
           IN  /\ heap'[o].notifications_enabled = ~heap[o].notifications_enabled
               /\ heap' = [heap EXCEPT ![o].notifications_enabled =
                                           heap'[o].notifications_enabled]
               /\ user_settings' = user_settings
               /\ o \in Stored(user_settings')
               /\ disk' = [kind |-> "json", doc |-> Dump(user_settings', heap')]
C25_ToggleFlipsOneFlag == [][C25_Rule]_vars

\* the second alert of chat 1 was toggled off, the first one is on, and the
\* file says so
C25_Witness ==
    /\ reply = Said("toggled", 0)
    /\ Len(Get(user_settings, 1)) = 2
    /\ heap[Get(user_settings, 1)[1]].notifications_enabled
    /\ ~heap[Get(user_settings, 1)[2]].notifications_enabled
    /\ disk = [kind |-> "json", doc |-> Dump(user_settings, heap)]

----------------------------------------------------------------------------
(* The claim about the scheduler.                                          *)

\* C29: whatever reads the chat-to-alerts mapping does so as a task of the
\* one event loop, that of the main thread, on which the handlers and the
\* monitor run; here, the read that /stats makes of it.
C29_SingleScheduler ==
    call.op = "stats" => call.thread = Thread("monitor_volumes")

----------------------------------------------------------------------------
(* The claims about the add dialogues.                                     *)

\* the alerts that a step appends
Appended == Stored(user_settings') \ Stored(user_settings)

\* C26: whatever the order of the buttons and messages, an alert is appended
\* only from the draft of its chat, which then holds a symbol of ALL_SYMBOLS
\* (or a list of them) and one of the eight intervals; the alert has the five
\* fields, last_notified 0 and notifications enabled; every stored alert has
\* the five fields; and the handler that appended ends with the state of its
\* chat idle and the draft cleared.
C26_Rule ==
    /\ \A o \in Appended :
          \E c \in Chats :
             LET d == user_temp[c]
             IN  /\ o \in Range(Get(user_settings', c))
                 /\ d.present
                 /\ d.interval \in Intervals
                 /\ heap'[o].symbol \in ALL_SYMBOLS
                 /\ heap'[o].symbol = d.symbol \/ heap'[o].symbol \in Range(d.symbols)
                 /\ heap'[o] = NewAlert(heap'[o].symbol, d.interval, heap'[o].threshold)
                 /\ heap'[o].last_notified = 0 /\ heap'[o].notifications_enabled
                 /\ heap'[o].threshold \in Nat
                 /\ IF pending' = pending
                    THEN user_state'[c] = "none" /\ user_temp'[c] = NoDraft
                    ELSE pending' = Append(pending, [chat_id |-> c, k |-> "pop_both",
                                                     symbols |-> <<>>])
    /\ \A o \in Stored(user_settings') :
          DOMAIN heap'[o] = {"symbol", "interval", "threshold", "last_notified",
                            "notifications_enabled"}
    /\ \A i \in 1..Len(pending) :
          (Resume(i) /\ pending[i].k = "pop_both")
          => /\ user_state'[pending[i].chat_id] = "none"
             /\ user_temp'[pending[i].chat_id] = NoDraft
C26_WellFormedAlerts == [][C26_Rule]_vars

\* a single add and a bulk add have completed: two alerts are stored, the
\* dialogue is idle and the draft is gone
C26_Witness ==
    /\ Len(Get(user_settings, 1)) = 2
    /\ reply.tag = "added"
    /\ pending = <<>>
    /\ user_state[1] = "none" /\ user_temp[1] = NoDraft
    /\ \A o \in Stored(user_settings) :
          heap[o].symbol \in ALL_SYMBOLS /\ heap[o].interval \in Intervals

\* the symbols of a draft without their repetitions, in the order of their
\* first occurrence
RECURSIVE Distinct(_)
Distinct(syms) ==
    IF syms = <<>> THEN <<>>
    ELSE LET r == Distinct(SubSeq(syms, 1, Len(syms) - 1))
         IN  IF syms[Len(syms)] \in Range(r) THEN r
             ELSE Append(r, syms[Len(syms)])

\* what a bulk add with threshold T has to make of the list of chat c
BulkResult(c, T) ==
    LET d   == user_temp[c]
        old == Get(user_settings, c)
        new == SelectSeq(Distinct(d.symbols),
                   LAMBDA x : ~\E j \in 1..Len(old) :
                                 /\ heap[old[j]].symbol = x
                                 /\ heap[old[j]].interval = d.interval)
        lst == Get(user_settings', c)
    IN  /\ Len(lst) = Len(old) + Len(new)
        /\ \A j \in 1..Len(old) : lst[j] = old[j] /\ heap'[old[j]] = heap[old[j]]
        /\ \A k \in 1..Len(new) :
              /\ lst[Len(old) + k] \notin Stored(user_settings)
              /\ heap'[lst[Len(old) + k]] = NewAlert(new[k], d.interval, T)
        /\ reply' = Said("added", Len(new))
        /\ disk' = [kind |-> "json", doc |-> Dump(user_settings', heap')]

\* C27: with a draft that holds tickers and an interval I, a threshold T
\* typed ("10,000") or pressed (volbtn_10000) appends, in input order, one
\* alert (s, I, T) for each distinct ticker s of the draft that had no alert
\* (s, I), and nothing else; the alerts that were there are unchanged and the
\* count reported is the number appended.
C27_Rule ==
    \A c \in Active :
        (/\ user_temp[c].symbols # <<>> /\ user_temp[c].interval # ""
         /\ \/ VolBtn(c, 10000)
            \/ user_state[c] \in ThresholdStates /\ Message(c, Txt10k))
        => BulkResult(c, 10000)
C27_BulkAdd == [][C27_Rule]_vars

\* a bulk add of "btc,ETHUSDT BTC" into an empty list reported two alerts:
\* BTCUSDT and ETHUSDT, in this order, and no second BTCUSDT
C27_Witness ==
    /\ reply = Said("added", 2)
    /\ Len(Get(user_settings, 1)) = 2
    /\ heap[Get(user_settings, 1)[1]].symbol = BTCUSDT
    /\ heap[Get(user_settings, 1)[2]].symbol = ETHUSDT
    /\ heap[Get(user_settings, 1)[1]].interval = heap[Get(user_settings, 1)[2]].interval

----------------------------------------------------------------------------
(* The claim about a send that fails.                                      *)

\* C32: when send_message raises for an alert that fired, the alert keeps
\* the fetched volume as last_notified and the firing stays counted; the pass
\* then ends with the store saved; and a fetch that returns the last_notified
\* of its alert sends nothing.
C32_Rule ==
    /\ (\E e \in SendErrors : SendRaises(e))
        => /\ heap'[alert].last_notified = vol
           /\ vol = sent[Len(sent)].vol
           /\ notifications_sent' = notifications_sent /\ notifications_sent >= 1
           /\ mon_pc' = "sleep"
              => disk' = [kind |-> "json", doc |-> Dump(user_settings', heap')]
    /\ (EndOfPass /\ sent' # <<>>)
        => disk' = [kind |-> "json", doc |-> Dump(user_settings', heap')]
    /\ (mon_pc = "fetch" /\ reads' # reads
         /\ reads'[Len(reads')].vol = heap[alert].last_notified)
        => sent' = sent /\ mon_pc' # "send"
C32_FailedSendKept == [][C32_Rule]_vars

\* the loop sleeps after a pass over one alert whose fetch succeeded and
\* whose send raised: the alert and the file hold the volume it fired at
C32_Witness ==
    /\ mon_pc = "sleep" /\ failed
    /\ Len(reads) = 1 /\ ~reads[1].raised
    /\ Len(sent) = 1
    /\ heap[sent[1].oid].last_notified = sent[1].vol /\ sent[1].vol > 0
    /\ disk = [kind |-> "json", doc |-> Dump(user_settings, heap)]

----------------------------------------------------------------------------
(* The claim about an edit that is abandoned.                              *)

\* C33: when 'back' is pressed in an edit dialogue before a threshold is
\* confirmed, the alert the dialogue was opened for is in memory what it is
\* in the data file, its interval and threshold those it had before the
\* dialogue (which wrote nothing to the file).
C33_Rule ==
    \A c \in Active :
        (/\ Back(c)
         /\ user_state[c] \in {"edit_interval", "edit_threshold",
                               "edit_threshold_custom"}
         /\ edit_oid[c] \in Stored(user_settings))
        => \E i \in 1..Len(user_settings') :
              /\ user_settings'[i].chat_id = c
              /\ i <= Len(disk'.doc)
              /\ \E j \in 1..Len(user_settings'[i].alerts) :
                    /\ user_settings'[i].alerts[j] = edit_oid[c]
                    /\ j <= Len(disk'.doc[i].value)
                    /\ disk'.doc[i].value[j] = heap'[edit_oid[c]]
C33_BackRestores == [][C33_Rule]_vars

----------------------------------------------------------------------------
(* The claim about the restart.                                            *)

\* C31: a monitor task ends only when stop_monitoring was called after
\* post_init created it: while no shutdown has begun since the last
\* post_init, the task has not left its loop.
C31_RunsUntilStopped == mon_pc = "done" => stop_pc # "none"

----------------------------------------------------------------------------
(* The claim about a confirmation that arrives twice.                      *)

\* the handler that confirmed the single add of chat c has appended its
\* alert and is suspended in its reply; nothing else was handled since
Confirming(c) ==
    /\ \E i \in 1..Len(pending) :
          pending[i].chat_id = c /\ pending[i].k = "pop_both"
    /\ reply = Said("added", 1)
    /\ user_temp[c].symbol # <<>> /\ user_temp[c].symbols = <<>>
    /\ user_temp[c].interval # ""

\* C34: the confirming event of a single add (the threshold typed, or the
\* preset button), handled a second time while the first handler is suspended
\* in its reply, appends no alert.
C34_Rule ==
    \A c \in Active :
        (Confirming(c) /\ (VolBtn(c, 10000) \/ Message(c, Txt10k)))
        => Stored(user_settings') = Stored(user_settings)
C34_OneAlertPerDialogue == [][C34_Rule]_vars

====
